---- MODULE Spec2Model ----
(***************************************************************************)
(* Model of the retrieval core of the farmer advisory backend:             *)
(*   backend/rag/vectorstore.py         VectorStore (index + metadata)     *)
(*   backend/rag/document_processor.py  DocumentProcessor                  *)
(*   backend/rag/embeddings.py          EmbeddingService                   *)
(*   backend/rag/rag_service.py         RAGService                         *)
(*   backend/services/rag_enhancer.py   EnhancedRAGService                 *)
(*   backend/config/constants.py        LANGUAGE_CHUNK_CONFIG              *)
(*                                                                         *)
(* Vectors are sequences of small integers, so the squared L2 distances    *)
(* the flat index reports are exact.  A similarity score is the rational   *)
(* [num, den].  Texts are sequences of one-character strings.  Python      *)
(* floats are binary64 values [m, e] with round-to-nearest-even.           *)
(*                                                                         *)
(* The specifications share the variables:                                 *)
(*   Spec            one VectorStore driven through add_vector,            *)
(*                   add_vectors, search and save (with storage faults);   *)
(*   SpecSearch      add_vector and search over every vector, query, k;    *)
(*   SpecPersist     add_vector, save, load and re-construction on one     *)
(*                   path, with storage faults on either artifact;         *)
(*   SpecChunk       chunk_text applied to every short text and language;  *)
(*   SpecIngest      process_and_store_document, with faults;              *)
(*   SpecRetrieve    retrieve_context and get_context_string;              *)
(*   SpecEmbed       request threads inside EmbeddingService;              *)
(*   SpecConfidence  _calculate_confidence on every result and rank;       *)
(*   SpecCite        retrieve_with_citations over a saved store;           *)
(*   SpecAnswer      should_generate_answer on every confidence and        *)
(*                   threshold;                                            *)
(*   SpecShared      request threads inside one VectorStore, statement by  *)
(*                   statement;                                            *)
(*   SpecService     request threads inside get_rag_service;               *)
(*   SpecFrame       add_vector, search, save and get_stats over every     *)
(*                   vector and query.                                     *)
(***************************************************************************)
EXTENDS Integers, Sequences, FiniteSets, TLC

VARIABLES
    index,       \* self.index: the vectors held by the flat L2 index, in insertion order
    metadata,    \* self.metadata: the parallel list of metadata records
    index_file,  \* index.faiss under store_path: [exists, data]
    meta_file,   \* metadata.pkl under store_path: [exists, data]
    alive,       \* TRUE while a constructed VectorStore object exists
    op,          \* the last call made: [name, vec, k, fault]
    outcome,     \* what that call's caller saw: "ok" or the exception raised
    hits,        \* the list the last search returned
    arg_text,      \* chunk_text: the text argument
    arg_language,  \* chunk_text: the language argument
    ret_chunks,    \* chunk_text: the returned list of chunks
    pc,            \* chunk_text: "start" before the call, "done" after it
    model,       \* EmbeddingService._model: "None" until a model object is cached
    loads,       \* how many times the SentenceTransformer constructor has completed
    trace,       \* the calls the last RAGService call made on its collaborators
    ret,         \* what the last service call returned
    threads,     \* the request threads inside a shared object: [pc, fn, ...]
    rag_service, \* rag_service._rag_service: 0 for None, else the number of the instance
    constructed  \* how many RAGService objects (each with its VectorStore) exist

vars == <<index, metadata, index_file, meta_file, alive, op, outcome, hits,
          arg_text, arg_language, ret_chunks, pc, model, loads, trace, ret, threads,
          rag_service, constructed>>

storeVars == <<index, metadata, index_file, meta_file, alive, op, outcome, hits>>
chunkVars == <<arg_text, arg_language, ret_chunks, pc>>
ragVars == <<model, loads, trace, ret, threads>>
svcVars == <<rag_service, constructed>>

---------------------------------------------------------------------------
(* Bounds of the model.                                                    *)

\* embedding_dim of the modelled store (settings.EMBEDDING_DIMENSION is 384)
EmbeddingDim == 2
\* the store is driven until it holds this many vectors
MaxVectors == 2
\* largest top_k a search is called with
MaxK == 3
\* longest batch handed to add_vectors
MaxBatch == 2
\* longest text handed to chunk_text, in characters
MaxTextLen == 7
\* request threads that use the embedder at the same time
MaxThreads == 2
\* longest result list a confidence is calculated for
MaxResults == 4

---------------------------------------------------------------------------
(* Generic helpers.                                                        *)

Min(a, b) == IF a <= b THEN a ELSE b

Max(a, b) == IF a >= b THEN a ELSE b

SeqsUpTo(S, n) == UNION {[1..l -> S] : l \in 0..n}

RECURSIVE SumSeq(_)
SumSeq(s) == IF s = <<>> THEN 0 ELSE Head(s) + SumSeq(Tail(s))

Constant(n, x) == [i \in 1..n |-> x]

---------------------------------------------------------------------------
(* Inputs.                                                                 *)

\* vectors of the configured dimension: (0,..,0), (1,0,..,0) and (1,..,1)
GoodVectors ==
    {Constant(EmbeddingDim, 0), [i \in 1..EmbeddingDim |-> IF i = 1 THEN 1 ELSE 0],
     Constant(EmbeddingDim, 1)}

\* vectors add_vector and search must reject: empty, one component too many
BadVectors == {<<>>, Constant(EmbeddingDim + 1, 1)}

AllVectors == GoodVectors \cup BadVectors

Texts == {"a", "b"}

\* metadata records a caller of add_vector passes: a text only
Metas == {[text |-> t] : t \in Texts}

\* the vectors the calls of Spec are made with: one valid, one too long, one empty
CallVectors == {Constant(EmbeddingDim, 0), Constant(EmbeddingDim + 1, 1), <<>>}

\* the vectors add_vectors batches are drawn from: one valid, one too long
BatchVectors == {Constant(EmbeddingDim, 0), Constant(EmbeddingDim + 1, 1)}

\* the vectors the persistence specification adds
PersistVectors == {Constant(EmbeddingDim, 0), Constant(EmbeddingDim, 1)}

SaveFaults == {"none", "mkdir", "write_index", "open_meta", "dump"}
LoadFaults == {"none", "read_index", "read_meta"}

Call(name, vec, k, fault) == [name |-> name, vec |-> vec, k |-> k, fault |-> fault]

NoFile == [exists |-> FALSE, data |-> <<>>]
File(data) == [exists |-> TRUE, data |-> data]

---------------------------------------------------------------------------
(* faiss.IndexFlatL2                                                       *)

\* squared Euclidean distance, the metric IndexFlatL2 reports
L2Sqr(x, y) == SumSeq([i \in 1..Len(x) |-> (x[i] - y[i]) * (x[i] - y[i])])

\* index.ntotal
ntotal(idx) == Len(idx)

\* The label lists index.search(query, k) may return: the k nearest stored
\* vectors by non-decreasing distance (labels are 0-based; the order among
\* equidistant vectors is not fixed by the library), padded with -1 when
\* fewer than k vectors are stored.
RECURSIVE Nearest(_, _, _, _)
Nearest(idx, q, k, left) ==
    IF k = 0 THEN {<<>>}
    ELSE IF left = {} THEN {Constant(k, -1)}
    ELSE LET best == {i \in left : \A j \in left : L2Sqr(idx[i + 1], q) <= L2Sqr(idx[j + 1], q)}
         IN  UNION {{<<i>> \o r : r \in Nearest(idx, q, k - 1, left \ {i})} : i \in best}

IndexSearch(idx, q, k) == Nearest(idx, q, k, 0..(ntotal(idx) - 1))

\* faiss.write_index: header (d, ntotal) followed by the flat array of codes
RECURSIVE Flatten(_)
Flatten(vs) == IF vs = <<>> THEN <<>> ELSE Head(vs) \o Flatten(Tail(vs))

write_index(idx) == <<EmbeddingDim, ntotal(idx)>> \o Flatten(idx)

\* faiss.read_index: [ok, value]; fails on a file that is not a whole index
read_index(f) ==
    IF ~f.exists \/ Len(f.data) < 2 THEN [ok |-> FALSE, value |-> <<>>]
    ELSE LET d == f.data[1]
             n == f.data[2]
         IN  IF Len(f.data) # 2 + d * n THEN [ok |-> FALSE, value |-> <<>>]
             ELSE [ok |-> TRUE,
                   value |-> [i \in 1..n |-> [j \in 1..d |-> f.data[2 + (i - 1) * d + j]]]]

---------------------------------------------------------------------------
(* pickle                                                                  *)

Tok(o, a) == [op |-> o, arg |-> a]

\* the keys of a metadata dict, in the order process_and_store_document
\* inserts them (a dict is pickled in insertion order); document_name is a
\* key only callers of add_vector supply
DictKeys == <<"text", "language", "chunk_index", "document_metadata", "document_name">>

\* the opcode that carries a value: an int, a nested dict, or a string
ValueOp(k) ==
    IF k = "chunk_index" THEN "BININT"
    ELSE IF k = "document_metadata" THEN "DICT"
    ELSE "BINUNICODE"

RECURSIVE PicklePairs(_, _)
PicklePairs(m, ks) ==
    IF ks = <<>> THEN <<>>
    ELSE <<Tok("BINUNICODE", Head(ks)), Tok(ValueOp(Head(ks)), m[Head(ks)])>>
             \o PicklePairs(m, Tail(ks))

\* save_dict: no item, one item closed by SETITEM, or a marked batch
PickleDict(m) ==
    LET InDict(k) == k \in DOMAIN m
        ks == SelectSeq(DictKeys, InDict)
    IN  IF ks = <<>> THEN <<Tok("EMPTY_DICT", "")>>
        ELSE IF Len(ks) = 1
        THEN <<Tok("EMPTY_DICT", "")>> \o PicklePairs(m, ks) \o <<Tok("SETITEM", "")>>
        ELSE <<Tok("EMPTY_DICT", ""), Tok("MARK", "")>> \o PicklePairs(m, ks)
                 \o <<Tok("SETITEMS", "")>>

RECURSIVE PickleItems(_)
PickleItems(ms) == IF ms = <<>> THEN <<>> ELSE PickleDict(Head(ms)) \o PickleItems(Tail(ms))

\* pickle.dump(self.metadata, f): the opcode stream of a list of dicts
pickle_dump(ms) ==
    <<Tok("EMPTY_LIST", ""), Tok("MARK", "")>> \o PickleItems(ms)
        \o <<Tok("APPENDS", ""), Tok("STOP", "")>>

\* load_setitem / load_setitems: the key and value tokens from position i up
\* to the closing opcode, set on the dict in order; [ok, value, next]
RECURSIVE UnpicklePairs(_, _, _, _)
UnpicklePairs(data, i, rec, closing) ==
    IF i > Len(data) THEN [ok |-> FALSE, value |-> <<>>, next |-> i]
    ELSE IF data[i].op = closing THEN [ok |-> TRUE, value |-> rec, next |-> i + 1]
    ELSE IF i + 1 > Len(data) \/ data[i].op # "BINUNICODE"
         THEN [ok |-> FALSE, value |-> <<>>, next |-> i]
    ELSE UnpicklePairs(data, i + 2, (data[i].arg :> data[i + 1].arg) @@ rec, closing)

\* one dict of the stream, starting at its EMPTY_DICT token; [ok, value, next]
UnpickleDict(data, i) ==
    IF i > Len(data) \/ data[i].op # "EMPTY_DICT"
    THEN [ok |-> FALSE, value |-> <<>>, next |-> i]
    ELSE IF i + 1 <= Len(data) /\ data[i + 1].op = "MARK"
    THEN UnpicklePairs(data, i + 2, <<>>, "SETITEMS")
    ELSE IF i + 1 <= Len(data) /\ data[i + 1].op = "BINUNICODE"
    THEN UnpicklePairs(data, i + 1, <<>>, "SETITEM")
    ELSE [ok |-> TRUE, value |-> <<>>, next |-> i + 1]

\* (variant of UnpickleItems: each record is put in front of the list)
RECURSIVE UnpickleItemsReversed(_, _, _)
UnpickleItemsReversed(data, i, acc) ==
    IF i > Len(data) THEN [ok |-> FALSE, value |-> <<>>]
    ELSE IF data[i].op = "APPENDS"
         THEN IF i + 1 = Len(data) /\ data[i + 1].op = "STOP"
              THEN [ok |-> TRUE, value |-> acc]
              ELSE [ok |-> FALSE, value |-> <<>>]
    ELSE \* one dict, appended to the list being built
         IF UnpickleDict(data, i).ok
         THEN UnpickleItemsReversed(data, UnpickleDict(data, i).next,
                                    <<UnpickleDict(data, i).value>> \o acc)
         ELSE [ok |-> FALSE, value |-> <<>>]

\* the dicts between the list's MARK and its APPENDS, in stream order
RECURSIVE UnpickleItems(_, _, _)
UnpickleItems(data, i, acc) ==
    IF i > Len(data) THEN [ok |-> FALSE, value |-> <<>>]
    ELSE IF data[i].op = "APPENDS"
         THEN IF i + 1 = Len(data) /\ data[i + 1].op = "STOP"
              THEN [ok |-> TRUE, value |-> acc]
              ELSE [ok |-> FALSE, value |-> <<>>]
    ELSE IF UnpickleDict(data, i).ok
         THEN UnpickleItems(data, UnpickleDict(data, i).next,
                            Append(acc, UnpickleDict(data, i).value))
         ELSE [ok |-> FALSE, value |-> <<>>]

\* pickle.load(f): [ok, value]; fails on an empty or truncated stream
pickle_load(f) ==
    IF ~f.exists \/ Len(f.data) < 2 THEN [ok |-> FALSE, value |-> <<>>]
    ELSE IF f.data[1].op # "EMPTY_LIST" \/ f.data[2].op # "MARK"
         THEN [ok |-> FALSE, value |-> <<>>]
         ELSE UnpickleItems(f.data, 3, <<>>)

---------------------------------------------------------------------------
(* VectorStore: the bodies of the methods, as functions of the object's    *)
(* fields.  Each returns the exception that leaves the method ("none" when *)
(* it returns normally) and the fields as the method leaves them.          *)

\* (variant of valid_vector: the length is not compared with the dimension)
valid_vector_nonempty(v) == v # <<>>

\* add_vector, line 37: the vector is non-empty and of the store's dimension
valid_vector(v) == v # <<>> /\ Len(v) = EmbeddingDim

\* (variant of add_vector_body: the metadata record is appended before the
\* vector is validated)
add_vector_body_orphan(idx, md, v, m) ==
    IF ~(v # <<>> /\ Len(v) = EmbeddingDim)
    THEN [raised |-> "ValueError", index |-> idx, metadata |-> Append(md, m)]
    ELSE [raised |-> "none", index |-> Append(idx, v), metadata |-> Append(md, m)]

\* add_vector: validate, index.add, metadata.append
add_vector_body(idx, md, v, m) ==
    IF ~valid_vector(v)
    THEN [raised |-> "ValueError", index |-> idx, metadata |-> md]
    ELSE [raised |-> "none", index |-> Append(idx, v), metadata |-> Append(md, m)]

\* add_vectors: the count check, then add_vector on each pair in turn; the
\* first add_vector that raises ends the loop and the exception is re-raised
RECURSIVE add_vectors_loop(_, _, _, _)
add_vectors_loop(idx, md, vs, ms) ==
    IF vs = <<>> \/ ms = <<>>
    THEN [raised |-> "none", index |-> idx, metadata |-> md]
    ELSE LET r == add_vector_body(idx, md, Head(vs), Head(ms))
         IN  IF r.raised # "none" THEN r
             ELSE add_vectors_loop(r.index, r.metadata, Tail(vs), Tail(ms))

add_vectors_body(idx, md, vs, ms) ==
    IF Len(vs) # Len(ms)
    THEN [raised |-> "ValueError", index |-> idx, metadata |-> md]
    ELSE add_vectors_loop(idx, md, vs, ms)

\* (variant of similarity_score: 1 - distance)
similarity_score_linear(distance) == [num |-> 1 - distance, den |-> 1]

\* search, line 80: 1 / (1 + distance)
similarity_score(distance) == [num |-> 1, den |-> 1 + distance]

\* (variant of valid_label: position 0 is taken for "no result")
valid_label_positive(i) == i > 0

\* search, line 77: the label is a valid index
valid_label(i) == i >= 0

\* search, lines 78-80: the metadata record at position i, copied and
\* extended with distance and similarity_score
search_hit(idx, md, q, i) ==
    [distance |-> L2Sqr(idx[i + 1], q),
     similarity_score |-> similarity_score(L2Sqr(idx[i + 1], q))] @@ md[i + 1]

\* search, lines 75-81: one result per valid label, in the order of the labels
RECURSIVE search_results(_, _, _, _, _)
search_results(idx, md, q, labels, results) ==
    IF labels = <<>> THEN [raised |-> "none", hits |-> results]
    ELSE IF ~valid_label(Head(labels))
         THEN search_results(idx, md, q, Tail(labels), results)
    ELSE IF Head(labels) + 1 > Len(md)
         THEN [raised |-> "IndexError", hits |-> <<>>]
    ELSE search_results(idx, md, q, Tail(labels),
                        Append(results, search_hit(idx, md, q, Head(labels))))

\* search, line 73: the number of neighbours asked of the index
search_k(idx, top_k) == Min(top_k, ntotal(idx))

\* search, lines 65-73: the answers index.search can give; the index is not
\* consulted when the store is empty or the query is rejected
search_labels(idx, q, top_k) ==
    IF ntotal(idx) = 0 \/ Len(q) # EmbeddingDim THEN {<<>>}
    ELSE IndexSearch(idx, q, search_k(idx, top_k))

\* search, lines 65-83: the try block, for one answer `labels` of the index
search_try(idx, md, q, labels) ==
    IF ntotal(idx) = 0 THEN [raised |-> "none", hits |-> <<>>]
    ELSE IF Len(q) # EmbeddingDim THEN [raised |-> "ValueError", hits |-> <<>>]
    ELSE search_results(idx, md, q, labels, <<>>)

\* search, lines 84-86: any exception is logged and an empty list returned
search_body(idx, md, q, labels) ==
    IF search_try(idx, md, q, labels).raised # "none"
    THEN [raised |-> "none", hits |-> <<>>]
    ELSE search_try(idx, md, q, labels)

\* (variant of save_body: a metadata file that exists is not written again)
save_body_keep_meta(idx, md, ifile, mfile, fault) ==
    IF fault # "none"
    THEN [raised |-> "OSError", index_file |-> ifile, meta_file |-> mfile]
    ELSE [raised |-> "none", index_file |-> File(write_index(idx)),
          meta_file |-> IF mfile.exists THEN mfile ELSE File(pickle_dump(md))]

\* (variant of search_stored: the results are the stored records themselves,
\* not copies, so the two keys are set on the stored records)
search_stored_aliased(idx, md, q, labels) ==
    IF search_try(idx, md, q, labels).raised # "none" THEN md
    ELSE [i \in 1..Len(md) |->
             IF \E j \in 1..Len(labels) : labels[j] = i - 1
             THEN search_hit(idx, md, q, i - 1) ELSE md[i]]

\* search, line 78: `self.metadata[idx].copy()`; distance and similarity_score
\* are set on the copy, and the stored records are left as they are
search_stored(idx, md, q, labels) == md

\* save: mkdir, write_index, open(meta_path, "wb"), pickle.dump; `fault` is
\* the step at which the storage fails.  Returns the two artifacts.
save_body(idx, md, ifile, mfile, fault) ==
    IF fault = "mkdir"
    THEN [raised |-> "OSError", index_file |-> ifile, meta_file |-> mfile]
    ELSE IF fault = "write_index"
    THEN [raised |-> "OSError", index_file |-> File(<<>>), meta_file |-> mfile]
    ELSE IF fault = "open_meta"
    THEN [raised |-> "OSError", index_file |-> File(write_index(idx)), meta_file |-> mfile]
    ELSE IF fault = "dump"
    THEN [raised |-> "OSError", index_file |-> File(write_index(idx)), meta_file |-> File(<<>>)]
    ELSE [raised |-> "none", index_file |-> File(write_index(idx)),
          meta_file |-> File(pickle_dump(md))]

\* load: self.index = read_index(...), then self.metadata = pickle.load(...)
load_body(idx, md, ifile, mfile, fault) ==
    LET ri == read_index(ifile)
        pl == pickle_load(mfile)
    IN  IF fault = "read_index" \/ ~ri.ok
        THEN [raised |-> "OSError", index |-> idx, metadata |-> md]
        ELSE IF fault = "read_meta" \/ ~pl.ok
        THEN [raised |-> "OSError", index |-> ri.value, metadata |-> md]
        ELSE [raised |-> "none", index |-> ri.value, metadata |-> pl.value]

\* (variant of init_body: the artifacts are loaded whether they exist or not)
init_body_load_always(ifile, mfile, fault) ==
    load_body(<<>>, <<>>, ifile, mfile, fault)

\* __init__: empty index and metadata, then load when both artifacts exist
init_body(ifile, mfile, fault) ==
    IF ifile.exists /\ mfile.exists
    THEN load_body(<<>>, <<>>, ifile, mfile, fault)
    ELSE [raised |-> "none", index |-> <<>>, metadata |-> <<>>]

\* get_stats
get_stats == [total_vectors |-> ntotal(index), embedding_dimension |-> EmbeddingDim]

Outcome(raised) == IF raised = "none" THEN "ok" ELSE raised

---------------------------------------------------------------------------
(* VectorStore: the calls.                                                 *)

add_vector(v, m) ==
    /\ alive
    /\ valid_vector(v) => (ntotal(index) < MaxVectors /\ Len(metadata) < MaxVectors)
    /\ \E r \in {add_vector_body(index, metadata, v, m)} :
           /\ index' = r.index
           /\ metadata' = r.metadata
           /\ outcome' = Outcome(r.raised)
    /\ op' = Call("add_vector", v, 0, "none")
    /\ hits' = <<>>
    /\ UNCHANGED <<svcVars, index_file, meta_file, alive, chunkVars, ragVars>>

add_vectors(vs, ms) ==
    /\ alive
    /\ ntotal(index) + Len(vs) <= MaxVectors /\ Len(metadata) + Len(vs) <= MaxVectors
    /\ \E r \in {add_vectors_body(index, metadata, vs, ms)} :
           /\ index' = r.index
           /\ metadata' = r.metadata
           /\ outcome' = Outcome(r.raised)
    /\ op' = Call("add_vectors", <<>>, 0, "none")
    /\ hits' = <<>>
    /\ UNCHANGED <<svcVars, index_file, meta_file, alive, chunkVars, ragVars>>

search(q, top_k) ==
    /\ alive
    /\ \E labels \in search_labels(index, q, top_k) :
          \E r \in {search_body(index, metadata, q, labels)} :
              /\ hits' = r.hits
              /\ metadata' = search_stored(index, metadata, q, labels)
              /\ outcome' = Outcome(r.raised)
    /\ op' = Call("search", q, top_k, "none")
    /\ UNCHANGED <<svcVars, index, index_file, meta_file, alive, chunkVars, ragVars>>

\* get_stats(): the vector count and the dimension; nothing is written
call_get_stats ==
    /\ alive
    /\ ret' = [ret EXCEPT !.stats = get_stats]
    /\ outcome' = "ok"
    /\ op' = Call("get_stats", <<>>, 0, "none")
    /\ hits' = <<>>
    /\ UNCHANGED <<svcVars, index, metadata, index_file, meta_file, alive, chunkVars,
                   model, loads, trace, threads>>

save(fault) ==
    /\ alive
    /\ \E r \in {save_body(index, metadata, index_file, meta_file, fault)} :
           /\ index_file' = r.index_file
           /\ meta_file' = r.meta_file
           /\ outcome' = Outcome(r.raised)
    /\ op' = Call("save", <<>>, 0, fault)
    /\ hits' = <<>>
    /\ UNCHANGED <<svcVars, index, metadata, alive, chunkVars, ragVars>>

load(fault) ==
    /\ alive
    /\ \E r \in {load_body(index, metadata, index_file, meta_file, fault)} :
           /\ index' = r.index
           /\ metadata' = r.metadata
           /\ outcome' = Outcome(r.raised)
    /\ op' = Call("load", <<>>, 0, fault)
    /\ hits' = <<>>
    /\ UNCHANGED <<svcVars, index_file, meta_file, alive, chunkVars, ragVars>>

\* a new process constructs the VectorStore on the same store_path; when
\* __init__ raises there is no store object
construct(fault) ==
    /\ \E r \in {init_body(index_file, meta_file, fault)} :
           /\ alive' = (r.raised = "none")
           /\ index' = IF r.raised = "none" THEN r.index ELSE <<>>
           /\ metadata' = IF r.raised = "none" THEN r.metadata ELSE <<>>
           /\ outcome' = Outcome(r.raised)
    /\ op' = Call("construct", <<>>, 0, fault)
    /\ hits' = <<>>
    /\ UNCHANGED <<svcVars, index_file, meta_file, chunkVars, ragVars>>

---------------------------------------------------------------------------
(* Specifications of the store.                                            *)

\* VectorStore(store_path) on a path that holds no artifact
StoreInit ==
    /\ index = <<>>
    /\ metadata = <<>>
    /\ index_file = NoFile
    /\ meta_file = NoFile
    /\ alive = TRUE
    /\ op = Call("construct", <<>>, 0, "none")
    /\ outcome = "ok"
    /\ hits = <<>>

ChunkIdle ==
    /\ arg_text = <<>>
    /\ arg_language = "en"
    /\ ret_chunks = <<>>
    /\ pc = "idle"

\* what a call that returned nothing leaves in ret
NoReturn ==
    [count |-> 0, results |-> <<>>, context |-> <<>>, sources |-> <<>>,
     average_confidence |-> 0, confidence |-> 0, generate |-> FALSE, reason |-> <<>>,
     stats |-> [total_vectors |-> 0, embedding_dimension |-> 0]]

\* a thread that is not inside an EmbeddingService call
IdleThread ==
    [pc |-> "idle", fn |-> "", arg |-> <<>>, texts |-> <<>>, raised |-> "none",
     value |-> <<>>]

Threads == 1..MaxThreads

\* a process that has not used the embedder or the RAG service yet
RagIdle ==
    /\ model = "None"
    /\ loads = 0
    /\ trace = <<>>
    /\ ret = NoReturn
    /\ threads = [t \in Threads |-> IdleThread]
    /\ rag_service = 0
    /\ constructed = 0

Init == StoreInit /\ ChunkIdle /\ RagIdle

\* the vector lists add_vectors is called with
Batches == SeqsUpTo(BatchVectors, MaxBatch)

\* the metadata lists that go with a vector list: one record per vector, or
\* one record too many
BatchMetas(vs) == {Constant(n, m) : n \in {Len(vs), Len(vs) + 1}, m \in Metas}

Next ==
    \/ \E v \in CallVectors, m \in Metas : add_vector(v, m)
    \/ \E vs \in Batches : \E ms \in BatchMetas(vs) : add_vectors(vs, ms)
    \/ \E q \in CallVectors, k \in {1, MaxK} : search(q, k)
    \/ \E f \in SaveFaults : save(f)

Spec == Init /\ [][Next]_vars

NextSearch ==
    \/ \E v \in GoodVectors, m \in Metas : add_vector(v, m)
    \/ \E q \in AllVectors, k \in 1..MaxK : search(q, k)

SpecSearch == Init /\ [][NextSearch]_vars

NextPersist ==
    \/ \E v \in PersistVectors, m \in Metas : add_vector(v, m)
    \/ \E f \in SaveFaults : save(f)
    \/ \E f \in LoadFaults : load(f)
    \/ \E f \in LoadFaults : construct(f)

SpecPersist == Init /\ [][NextPersist]_vars

---------------------------------------------------------------------------
(* Python str and re, on texts as sequences of characters.                 *)

Whitespace == {" "}
Punctuation == {".", "!", "?"}

\* the characters texts are written in: two letters, blank, full stop
Chars == {"a", "b", " ", "."}

RECURSIVE lstrip(_)
lstrip(s) == IF s # <<>> /\ Head(s) \in Whitespace THEN lstrip(Tail(s)) ELSE s

RECURSIVE rstrip(_)
rstrip(s) ==
    IF s # <<>> /\ s[Len(s)] \in Whitespace THEN rstrip(SubSeq(s, 1, Len(s) - 1)) ELSE s

\* str.strip()
strip(s) == rstrip(lstrip(s))

\* str.split(): the maximal runs of non-whitespace characters
RECURSIVE split_scan(_, _, _)
split_scan(s, words, cur) ==
    IF s = <<>> THEN (IF cur # <<>> THEN Append(words, cur) ELSE words)
    ELSE IF Head(s) \in Whitespace
         THEN split_scan(Tail(s), IF cur # <<>> THEN Append(words, cur) ELSE words, <<>>)
         ELSE split_scan(Tail(s), words, Append(cur, Head(s)))

split(s) == split_scan(s, <<>>, <<>>)

\* " ".join(words)
RECURSIVE join(_)
join(words) ==
    IF words = <<>> THEN <<>>
    ELSE IF Len(words) = 1 THEN Head(words)
    ELSE Head(words) \o <<" ">> \o join(Tail(words))

\* re.split(r'[.!?]+', text): the pieces between the runs of punctuation,
\* the empty pieces at either end included
RECURSIVE re_split_scan(_, _, _, _)
re_split_scan(s, pieces, cur, in_run) ==
    IF s = <<>> THEN Append(pieces, cur)
    ELSE IF Head(s) \in Punctuation
         THEN IF in_run THEN re_split_scan(Tail(s), pieces, cur, TRUE)
              ELSE re_split_scan(Tail(s), Append(pieces, cur), <<>>, TRUE)
         ELSE re_split_scan(Tail(s), pieces, Append(cur, Head(s)), FALSE)

re_split(s) == re_split_scan(s, <<>>, <<>>, FALSE)

\* [f(x) for x in xs]
RECURSIVE strip_each(_)
strip_each(xs) == IF xs = <<>> THEN <<>> ELSE <<strip(Head(xs))>> \o strip_each(Tail(xs))

NonBlank(s) == strip(s) # <<>>

---------------------------------------------------------------------------
(* DocumentProcessor                                                       *)

\* LANGUAGE_CHUNK_CONFIG, with the word counts scaled down (the source has
\* 500/50, 300/30, 350/35) so that texts of a few words cross a chunk
\* boundary; "en" has the sizes of the specification's scenario A
LANGUAGE_CHUNK_CONFIG ==
    [en |-> [chunk_size |-> 4, overlap |-> 2],
     hi |-> [chunk_size |-> 2, overlap |-> 1],
     mr |-> [chunk_size |-> 3, overlap |-> 1]]

\* the language codes chunk_text is called with; "ta" has no configuration
Languages == {"en", "hi", "mr", "ta"}

\* chunk_text, line 74: LANGUAGE_CHUNK_CONFIG.get(language, LANGUAGE_CHUNK_CONFIG["en"])
chunk_config(language) ==
    IF language \in DOMAIN LANGUAGE_CHUNK_CONFIG
    THEN LANGUAGE_CHUNK_CONFIG[language]
    ELSE LANGUAGE_CHUNK_CONFIG["en"]

\* _split_sentences
split_sentences(text) == SelectSeq(strip_each(re_split(text)), NonBlank)

\* s[-n:] for 0 < n
LastWords(s, n) == IF n >= Len(s) THEN s ELSE SubSeq(s, Len(s) - n + 1, Len(s))

\* (variant of overlap_seed: the first words of the chunk are carried over)
overlap_seed_head(current_chunk, current_length, overlap) ==
    IF Min(overlap, current_length) > 0
    THEN SubSeq(current_chunk, 1, Min(overlap, current_length))
    ELSE <<>>

\* chunk_text, lines 97-98: the words a new chunk starts with
overlap_seed(current_chunk, current_length, overlap) ==
    IF Min(overlap, current_length) > 0
    THEN LastWords(current_chunk, Min(overlap, current_length))
    ELSE <<>>

\* (variant of fits: the length is tested before the sentence is counted)
fits_before_adding(current_length, n_words, chunk_size) == current_length <= chunk_size

\* chunk_text, line 87: the sentence still fits the current chunk
fits(current_length, n_words, chunk_size) == current_length + n_words <= chunk_size

\* chunk_text, lines 85-104: the loop over the sentences and the last chunk
RECURSIVE chunk_loop(_, _, _, _, _, _)
chunk_loop(sentences, chunk_size, overlap, chunks, current_chunk, current_length) ==
    IF sentences = <<>>
    THEN IF current_chunk # <<>> THEN Append(chunks, join(current_chunk)) ELSE chunks
    ELSE IF fits(current_length, Len(split(Head(sentences))), chunk_size)
    THEN chunk_loop(Tail(sentences), chunk_size, overlap, chunks,
                    current_chunk \o split(Head(sentences)),
                    current_length + Len(split(Head(sentences))))
    ELSE chunk_loop(Tail(sentences), chunk_size, overlap,
                    IF current_chunk # <<>> THEN Append(chunks, join(current_chunk))
                    ELSE chunks,
                    overlap_seed(current_chunk, current_length, overlap)
                        \o split(Head(sentences)),
                    Len(overlap_seed(current_chunk, current_length, overlap)
                        \o split(Head(sentences))))

\* chunk_text
chunk_text(text, language) ==
    IF text = <<>> \/ strip(text) = <<>> THEN <<>>
    ELSE SelectSeq(strip_each(chunk_loop(split_sentences(text),
                                         chunk_config(language).chunk_size,
                                         chunk_config(language).overlap,
                                         <<>>, <<>>, 0)),
                   NonBlank)

---------------------------------------------------------------------------
(* Specification of the chunker: chunk_text on every text and language.    *)

\* The text of the worked chunking example, three sentences of three words.
RiceText ==
    <<"R", "i", "c", "e", " ", "n", "e", "e", "d", "s", " ", "w", "a", "t",
      "e", "r", ".", " ", "R", "i", "c", "e", " ", "n", "e", "e", "d", "s",
      " ", "n", "i", "t", "r", "o", "g", "e", "n", ".", " ", "R", "i", "c",
      "e", " ", "n", "e", "e", "d", "s", " ", "s", "u", "n", "l", "i", "g",
      "h", "t", "." >>

\* The three chunks the worked example lists for a chunk size of 4 words
\* and an overlap of 2 words.
RiceChunks ==
    << (
    <<"R", "i", "c", "e", " ", "n", "e", "e", "d", "s", " ", "w", "a", "t",
      "e", "r" >> ), (
    <<"n", "e", "e", "d", "s", " ", "w", "a", "t", "e", "r", " ", "R", "i",
      "c", "e", " ", "n", "e", "e", "d", "s", " ", "n", "i", "t", "r", "o",
      "g", "e", "n" >> ), (
    <<"n", "e", "e", "d", "s", " ", "n", "i", "t", "r", "o", "g", "e", "n",
      " ", "R", "i", "c", "e", " ", "n", "e", "e", "d", "s", " ", "s", "u",
      "n", "l", "i", "g", "h", "t" >> ) >>

ChunkArgs ==
    /\ arg_text \in SeqsUpTo(Chars, MaxTextLen) \cup {RiceText}
    /\ arg_language \in Languages
    /\ ret_chunks = <<>>
    /\ pc = "start"

call_chunk_text ==
    /\ pc = "start"
    /\ ret_chunks' = chunk_text(arg_text, arg_language)
    /\ pc' = "done"
    /\ UNCHANGED <<svcVars, arg_text, arg_language, storeVars, ragVars>>

NextChunk == call_chunk_text

InitChunk == StoreInit /\ ChunkArgs /\ RagIdle

SpecChunk == InitChunk /\ [][NextChunk]_vars

---------------------------------------------------------------------------
(* Properties of the VectorStore calls (specification Spec).               *)

\* C1: after every add_vector, add_vectors, search and save call, raising
\* ones included, there are as many metadata records as vectors in the index.
C1_MetadataMatchesIndex == Len(metadata) = ntotal(index)

\* a batch add has raised on a store that already holds an entry
C1_Witness == op.name = "add_vectors" /\ outcome = "ValueError" /\ ntotal(index) >= 1

\* C2: add_vector with an empty vector or one whose length is not
\* embedding_dim raises ValueError and leaves index, metadata and
\* get_stats().total_vectors as they were.
C2_RejectedAddChangesNothing ==
    [][(op'.name = "add_vector" /\ (op'.vec = <<>> \/ Len(op'.vec) # EmbeddingDim))
         => /\ outcome' = "ValueError"
            /\ index' = index
            /\ metadata' = metadata
            /\ get_stats'.total_vectors = get_stats.total_vectors]_vars

\* a vector of the wrong length was rejected by a store that holds an entry
C2_Witness ==
    /\ op.name = "add_vector"
    /\ op.vec # <<>>
    /\ Len(op.vec) # EmbeddingDim
    /\ outcome = "ValueError"
    /\ ntotal(index) >= 1

\* C3: an add_vectors call that fails leaves the store holding exactly the
\* vectors and metadata it held before the call.
C3_FailedBatchChangesNothing ==
    [][(op'.name = "add_vectors" /\ outcome' # "ok")
         => (index' = index /\ metadata' = metadata)]_vars

---------------------------------------------------------------------------
(* Properties of search (specification SpecSearch).                        *)

Sorted(hs) == \A i, j \in 1..Len(hs) : i < j => hs[i].distance <= hs[j].distance

\* C4: search with a query of the configured dimension and k >= 1 on a store
\* of N entries returns min(k, N) hits by non-decreasing distance; on an
\* empty store it returns the empty list and raises nothing.
C4_SearchReturnsNearest ==
    op.name = "search" =>
        /\ Len(op.vec) = EmbeddingDim =>
              /\ outcome = "ok"
              /\ Len(hits) = (IF op.k <= ntotal(index) THEN op.k ELSE ntotal(index))
              /\ Sorted(hits)
        /\ ntotal(index) = 0 => (outcome = "ok" /\ hits = <<>>)

\* a search asked for more neighbours than stored and got two hits at
\* different distances
C4_Witness ==
    /\ op.name = "search"
    /\ op.k > ntotal(index)
    /\ Len(hits) = 2
    /\ hits[1].distance < hits[2].distance

\* C5: search on a non-empty store with a query whose length is not
\* embedding_dim raises a validation error to its caller.
C5_QueryMismatchRaises ==
    (op.name = "search" /\ ntotal(index) > 0 /\ Len(op.vec) # EmbeddingDim)
        => outcome = "ValueError"

\* a / b < c / d for positive denominators
RatLess(x, y) == x.num * y.den < y.num * x.den

---------------------------------------------------------------------------
(* Properties of save and load (specification SpecPersist).                *)

\* C7: a store constructed on, or loaded from, the path a save has just
\* written holds as many vectors and the same metadata sequence as the
\* store that was saved.
C7_SaveLoadRoundTrip ==
    [][(/\ op.name = "save"
        /\ outcome = "ok"
        /\ op'.name \in {"construct", "load"}
        /\ op'.fault = "none")
         => /\ outcome' = "ok"
            /\ ntotal(index') = ntotal(index)
            /\ metadata' = metadata]_vars

\* a new store was constructed from artifacts holding two different records
C7_Witness ==
    /\ op.name = "construct"
    /\ outcome = "ok"
    /\ ntotal(index) = 2
    /\ Len(metadata) = 2
    /\ metadata[1] # metadata[2]

\* C8: a save or load that fails leaves the in-memory index and metadata
\* exactly as they were before the call.
C8_FailedStorageCallKeepsMemory ==
    [][(op'.name \in {"save", "load"} /\ outcome' # "ok")
         => (index' = index /\ metadata' = metadata)]_vars

---------------------------------------------------------------------------
(* Properties of chunk_text (specification SpecChunk).                     *)

Sentences == split_sentences(arg_text)
Sentence(j) == split(Sentences[j])
ChunkWords(i) == split(ret_chunks[i])
ChunkSize == chunk_config(arg_language).chunk_size
Overlap == chunk_config(arg_language).overlap

\* the last n words of w
Suffix(w, n) == SubSeq(w, Len(w) - n + 1, Len(w))

\* C9 as stated: a chunk with more than chunk_size words is one sentence
\* that alone has more than chunk_size words.
C9_OversizeIsOneSentence ==
    pc = "done" =>
        \A i \in 1..Len(ret_chunks) :
            Len(ChunkWords(i)) > ChunkSize
                => \E j \in 1..Len(Sentences) : ChunkWords(i) = Sentence(j)

\* C9 (amended): a chunk with more than chunk_size words consists of at most
\* `overlap` words carried over from the end of the chunk before it, followed
\* by exactly one whole sentence; the first chunk carries nothing over.
C9_OversizeIsCarryPlusOneSentence ==
    pc = "done" =>
        \A i \in 1..Len(ret_chunks) :
            Len(ChunkWords(i)) > ChunkSize
                => \E j \in 1..Len(Sentences), c \in 0..Overlap :
                      /\ Len(ChunkWords(i)) = c + Len(Sentence(j))
                      /\ Suffix(ChunkWords(i), Len(Sentence(j))) = Sentence(j)
                      /\ c > 0 =>
                            /\ i > 1
                            /\ c <= Len(ChunkWords(i - 1))
                            /\ SubSeq(ChunkWords(i), 1, c) = Suffix(ChunkWords(i - 1), c)

\* a chunk after the first exceeds chunk_size although no sentence does
C9_Witness ==
    /\ pc = "done"
    /\ \E i \in 2..Len(ret_chunks) : Len(ChunkWords(i)) > ChunkSize
    /\ \A j \in 1..Len(Sentences) : Len(Sentence(j)) <= ChunkSize

\* C10: when overlap > 0 and chunk i has at least `overlap` words, chunk i+1
\* starts with the last `overlap` words of chunk i, followed by the words of
\* the sentence after the one chunk i ends with.
C10_OverlapCarried ==
    pc = "done" =>
        \A i \in 1..(Len(ret_chunks) - 1) :
            (Overlap > 0 /\ Len(ChunkWords(i)) >= Overlap)
                => \E j \in 2..Len(Sentences) :
                      /\ Len(Sentence(j - 1)) <= Len(ChunkWords(i))
                      /\ Suffix(ChunkWords(i), Len(Sentence(j - 1))) = Sentence(j - 1)
                      /\ Len(ChunkWords(i + 1)) >= Overlap + Len(Sentence(j))
                      /\ SubSeq(ChunkWords(i + 1), 1, Overlap) = Suffix(ChunkWords(i), Overlap)
                      /\ SubSeq(ChunkWords(i + 1), Overlap + 1, Overlap + Len(Sentence(j)))
                            = Sentence(j)

\* a chunk that begins and ends with different words is followed by another
C10_Witness ==
    /\ pc = "done"
    /\ Len(ret_chunks) >= 2
    /\ Overlap > 0
    /\ Len(ChunkWords(1)) >= Overlap
    /\ ChunkWords(1)[1] # ChunkWords(1)[Len(ChunkWords(1))]


\* C11: with a chunk size of 4 words and an overlap of 2 words, chunk_text
\* turns "Rice needs water. Rice needs nitrogen. Rice needs sunlight." into
\* exactly the chunks "Rice needs water", "needs water Rice needs nitrogen"
\* and "needs nitrogen Rice needs sunlight", in that order.
C11_RiceExample ==
    (/\ pc = "done"
     /\ arg_text = RiceText
     /\ chunk_config(arg_language) = [chunk_size |-> 4, overlap |-> 2])
        => ret_chunks = RiceChunks

C11_Witness ==
    /\ pc = "done"
    /\ arg_text = RiceText
    /\ chunk_config(arg_language) = [chunk_size |-> 4, overlap |-> 2]
    /\ Len(ret_chunks) = 3


---------------------------------------------------------------------------
(* EmbeddingService                                                        *)

\* the characters of a text
Range(s) == {s[i] : i \in DOMAIN s}

\* model.encode(text): the sentence-transformer is a fixed function from a
\* text to a vector of the configured dimension; here the first component
\* tells whether the text has an "a", the others whether it has a "b"
encode(text) ==
    [i \in 1..EmbeddingDim |->
        IF i = 1 THEN (IF "a" \in Range(text) THEN 1 ELSE 0)
        ELSE (IF "b" \in Range(text) THEN 1 ELSE 0)]

\* model.encode(texts): one vector per text, in order
encode_all(texts) == [i \in 1..Len(texts) |-> encode(texts[i])]

\* the points at which the embedder can fail
EmbedFaults == {"none", "model_load", "encode"}

\* `t and t.strip()`
truthy_text(t) == t # <<>> /\ strip(t) # <<>>

\* _get_model: the cached model, or a newly constructed one; `constructed`
\* counts the constructor runs that completed
get_model_body(mdl, fault) ==
    IF mdl # "None" THEN [raised |-> "none", model |-> mdl, constructed |-> 0]
    ELSE IF fault = "model_load"
    THEN [raised |-> "OSError", model |-> "None", constructed |-> 0]
    ELSE [raised |-> "none", model |-> "SentenceTransformer", constructed |-> 1]

\* what an embed call leaves when it raises before the model is asked for
EmbedRejected(mdl) ==
    [raised |-> "ValueError", model |-> mdl, constructed |-> 0, calls |-> <<>>,
     value |-> <<>>]

\* the part of embed_text and embed_texts after the validation: _get_model,
\* then encode (`value` is what encode returns)
embed_with_model(mdl, fault, value) ==
    IF get_model_body(mdl, fault).raised # "none"
    THEN [raised |-> get_model_body(mdl, fault).raised, model |-> mdl,
          constructed |-> 0, calls |-> <<"_get_model">>, value |-> <<>>]
    ELSE IF fault = "encode"
    THEN [raised |-> "RuntimeError", model |-> get_model_body(mdl, fault).model,
          constructed |-> get_model_body(mdl, fault).constructed,
          calls |-> <<"_get_model", "encode">>, value |-> <<>>]
    ELSE [raised |-> "none", model |-> get_model_body(mdl, fault).model,
          constructed |-> get_model_body(mdl, fault).constructed,
          calls |-> <<"_get_model", "encode">>, value |-> value]

\* embed_text
embed_text_body(mdl, text, fault) ==
    IF ~truthy_text(text) THEN EmbedRejected(mdl)
    ELSE embed_with_model(mdl, fault, encode(text))

\* (variant of kept_texts: nothing is filtered out)
kept_texts_all(texts) == texts

\* embed_texts, line 49: [t for t in texts if t and t.strip()]
kept_texts(texts) == SelectSeq(texts, truthy_text)

\* embed_texts
embed_texts_body(mdl, texts, fault) ==
    IF texts = <<>> THEN EmbedRejected(mdl)
    ELSE IF kept_texts(texts) = <<>> THEN EmbedRejected(mdl)
    ELSE embed_with_model(mdl, fault, encode_all(kept_texts(texts)))


---------------------------------------------------------------------------
(* DocumentProcessor.clean_text                                            *)

\* the characters of the model's alphabet that the pattern
\* [^\w\s\n।.!?,-] matches, and re.sub therefore removes
Symbols == {"@"}

Kept(c) == c \notin Symbols

\* clean_text: " ".join(text.split()), then the special characters removed
clean_text(text) == SelectSeq(join(split(text)), Kept)

---------------------------------------------------------------------------
(* RAGService: the bodies of the methods, as functions of the store's      *)
(* fields, the two artifacts and the cached model.                         *)

\* settings.TOP_K_RESULTS
TOP_K_RESULTS == 5

\* `document_metadata or {}` (a dict is the set of its items)
or_empty_dict(document_metadata) ==
    IF document_metadata = {} THEN {} ELSE document_metadata

\* process_and_store_document, lines 43-48: the metadata of chunk number idx
chunk_metadata(chunk, language, idx, document_metadata) ==
    [text |-> chunk, language |-> language, chunk_index |-> idx,
     document_metadata |-> or_empty_dict(document_metadata)]

\* (variant of store_chunks: chunk_index counts from 1)
RECURSIVE store_chunks_from_one(_, _, _, _, _, _, _)
store_chunks_from_one(idx, md, chunks, embeddings, i, language, document_metadata) ==
    IF chunks = <<>> \/ embeddings = <<>>
    THEN [raised |-> "none", index |-> idx, metadata |-> md, calls |-> i]
    ELSE IF add_vector_body(idx, md, Head(embeddings),
                chunk_metadata(Head(chunks), language, i + 1, document_metadata)).raised # "none"
    THEN [raised |-> "ValueError", index |-> idx, metadata |-> md, calls |-> i + 1]
    ELSE store_chunks_from_one(Append(idx, Head(embeddings)),
             Append(md, chunk_metadata(Head(chunks), language, i + 1, document_metadata)),
             Tail(chunks), Tail(embeddings), i + 1, language, document_metadata)

\* process_and_store_document, lines 42-49: add_vector on each pair of
\* zip(chunks, embeddings), numbered from i; `calls` counts the add_vector
\* calls made; the first one that raises ends the loop
RECURSIVE store_chunks(_, _, _, _, _, _, _)
store_chunks(idx, md, chunks, embeddings, i, language, document_metadata) ==
    IF chunks = <<>> \/ embeddings = <<>>
    THEN [raised |-> "none", index |-> idx, metadata |-> md, calls |-> i]
    ELSE IF add_vector_body(idx, md, Head(embeddings),
                chunk_metadata(Head(chunks), language, i, document_metadata)).raised # "none"
    THEN [raised |-> "ValueError", index |-> idx, metadata |-> md, calls |-> i + 1]
    ELSE store_chunks(Append(idx, Head(embeddings)),
             Append(md, chunk_metadata(Head(chunks), language, i, document_metadata)),
             Tail(chunks), Tail(embeddings), i + 1, language, document_metadata)

\* the points at which a process_and_store_document call can fail
IngestFaults == EmbedFaults \cup SaveFaults

\* what process_and_store_document leaves: the exception (or "none"), the
\* store's fields, the artifacts, the cached model, the calls made, the
\* chunks and the returned count
Ingested(raised, idx, md, ifile, mfile, e, calls, chunks, count) ==
    [raised |-> raised, index |-> idx, metadata |-> md, index_file |-> ifile,
     meta_file |-> mfile, model |-> e.model, constructed |-> e.constructed,
     trace |-> calls, chunks |-> chunks, count |-> count]

\* (variant of no_chunks: the chunk list is never taken for empty)
no_chunks_never(chunks) == FALSE

\* process_and_store_document, line 34: `if not chunks`
no_chunks(chunks) == chunks = <<>>

\* (variant of process_and_store_document_body: the store is saved before
\* the chunks are added)
process_and_store_document_body_save_first(idx, md, ifile, mfile, mdl, text, language, document_metadata, fault) ==
    LET chunks == chunk_text(clean_text(text), language)
        e == embed_texts_body(mdl, chunks, fault)
        a == store_chunks(idx, md, chunks, e.value, 0, language, document_metadata)
        s == save_body(idx, md, ifile, mfile, fault)
        begun == <<"clean_text", "chunk_text">>
        embedded == begun \o <<"embed_texts">> \o e.calls
        added == embedded \o <<"save">> \o Constant(a.calls, "add_vector")
    IN  IF no_chunks(chunks)
        THEN Ingested("none", idx, md, ifile, mfile,
                      [model |-> mdl, constructed |-> 0], begun, chunks, 0)
        ELSE IF e.raised # "none"
        THEN Ingested(e.raised, idx, md, ifile, mfile, e, embedded, chunks, 0)
        ELSE IF a.raised # "none"
        THEN Ingested(a.raised, a.index, a.metadata, s.index_file, s.meta_file, e,
                      added, chunks, 0)
        ELSE IF s.raised # "none"
        THEN Ingested(s.raised, a.index, a.metadata, s.index_file, s.meta_file, e,
                      added, chunks, 0)
        ELSE Ingested("none", a.index, a.metadata, s.index_file, s.meta_file, e,
                      added, chunks, Len(chunks))

\* process_and_store_document: clean, chunk, return 0 on no chunk, embed,
\* add each chunk, save, return len(chunks); any exception is re-raised
process_and_store_document_body(idx, md, ifile, mfile, mdl, text, language, document_metadata, fault) ==
    LET chunks == chunk_text(clean_text(text), language)
        e == embed_texts_body(mdl, chunks, fault)
        a == store_chunks(idx, md, chunks, e.value, 0, language, document_metadata)
        s == save_body(a.index, a.metadata, ifile, mfile, fault)
        begun == <<"clean_text", "chunk_text">>
        embedded == begun \o <<"embed_texts">> \o e.calls
        added == embedded \o Constant(a.calls, "add_vector")
    IN  IF no_chunks(chunks)
        THEN Ingested("none", idx, md, ifile, mfile,
                      [model |-> mdl, constructed |-> 0], begun, chunks, 0)
        ELSE IF e.raised # "none"
        THEN Ingested(e.raised, idx, md, ifile, mfile, e, embedded, chunks, 0)
        ELSE IF a.raised # "none"
        THEN Ingested(a.raised, a.index, a.metadata, ifile, mfile, e, added, chunks, 0)
        ELSE IF s.raised # "none"
        THEN Ingested(s.raised, a.index, a.metadata, s.index_file, s.meta_file, e,
                      added \o <<"save">>, chunks, 0)
        ELSE Ingested("none", a.index, a.metadata, s.index_file, s.meta_file, e,
                      added \o <<"save">>, chunks, Len(chunks))

\* retrieve_context, lines 65-66: top_k is <<>> for None, <<k>> for k
resolve_top_k(top_k) == IF top_k = <<>> THEN TOP_K_RESULTS ELSE top_k[1]

\* the answers the index can give to the search retrieve_context makes; the
\* store is not searched when the query cannot be embedded
retrieve_labels(idx, mdl, query, top_k, fault) ==
    IF embed_text_body(mdl, query, fault).raised # "none" THEN {<<>>}
    ELSE search_labels(idx, encode(query), resolve_top_k(top_k))

\* retrieve_context, lines 69-75, once the query is embedded
retrieve_context_search(idx, md, e, labels) ==
    LET s == CHOOSE s \in {search_body(idx, md, e.value, labels)} : TRUE
    IN  [raised |-> s.raised, results |-> s.hits, model |-> e.model,
         constructed |-> e.constructed,
         trace |-> <<"embed_text">> \o e.calls \o <<"search">>]

\* retrieve_context, lines 65-75: the try block
retrieve_context_try(idx, md, mdl, query, top_k, fault, labels) ==
    LET e == CHOOSE e \in {embed_text_body(mdl, query, fault)} : TRUE
    IN  IF e.raised # "none"
        THEN [raised |-> e.raised, results |-> <<>>, model |-> e.model,
              constructed |-> e.constructed, trace |-> <<"embed_text">> \o e.calls]
        ELSE retrieve_context_search(idx, md, e, labels)

\* (variant of retrieve_context_body: the exception is passed on)
retrieve_context_body_reraise(idx, md, mdl, query, top_k, fault, labels) ==
    retrieve_context_try(idx, md, mdl, query, top_k, fault, labels)

\* retrieve_context: embed the query, search; [] on any exception
retrieve_context_body(idx, md, mdl, query, top_k, fault, labels) ==
    LET t == CHOOSE t \in {retrieve_context_try(idx, md, mdl, query, top_k, fault,
                                                labels)} : TRUE
    IN  IF t.raised # "none"
        THEN [t EXCEPT !.raised = "none", !.results = <<>>]
        ELSE t

\* `result.get("text")` is truthy
has_text(result) == "text" \in DOMAIN result /\ result.text # <<>>

\* [result.get("text", "") for result in results if result.get("text")]
RECURSIVE context_pieces(_)
context_pieces(results) ==
    IF results = <<>> THEN <<>>
    ELSE IF has_text(Head(results))
         THEN <<Head(results).text>> \o context_pieces(Tail(results))
         ELSE context_pieces(Tail(results))

\* separator.join(pieces)
RECURSIVE join_with(_, _)
join_with(separator, pieces) ==
    IF pieces = <<>> THEN <<>>
    ELSE IF Len(pieces) = 1 THEN Head(pieces)
    ELSE Head(pieces) \o separator \o join_with(separator, Tail(pieces))

\* get_context_string: the texts of the retrieved results, joined; "" on
\* any exception
get_context_string_body(idx, md, mdl, query, top_k, separator, fault, labels) ==
    LET r == CHOOSE r \in {retrieve_context_body(idx, md, mdl, query, top_k, fault,
                                                 labels)} : TRUE
    IN  IF r.raised # "none"
        THEN [raised |-> "none", context |-> <<>>, results |-> <<>>, model |-> r.model,
              constructed |-> r.constructed, trace |-> <<"retrieve_context">> \o r.trace]
        ELSE [raised |-> "none", context |-> join_with(separator, context_pieces(r.results)),
              results |-> r.results, model |-> r.model, constructed |-> r.constructed,
              trace |-> <<"retrieve_context">> \o r.trace]


---------------------------------------------------------------------------
(* RAGService: the calls.                                                  *)

RagCall(name, text, language, top_k, fault) ==
    [name |-> name, vec |-> <<>>, k |-> top_k, fault |-> fault, text |-> text,
     language |-> language]

process_and_store_document(text, language, document_metadata, fault) ==
    /\ alive
    /\ \E r \in {process_and_store_document_body(index, metadata, index_file, meta_file,
                     model, text, language, document_metadata, fault)} :
           /\ ntotal(index) + Len(r.chunks) <= MaxVectors
           /\ Len(metadata) + Len(r.chunks) <= MaxVectors
           /\ index' = r.index
           /\ metadata' = r.metadata
           /\ index_file' = r.index_file
           /\ meta_file' = r.meta_file
           /\ model' = r.model
           /\ loads' = loads + r.constructed
           /\ trace' = r.trace
           /\ ret' = [NoReturn EXCEPT !.count = r.count]
           /\ outcome' = Outcome(r.raised)
    /\ op' = RagCall("process_and_store_document", text, language, <<>>, fault)
    /\ hits' = <<>>
    /\ UNCHANGED <<svcVars, alive, chunkVars, threads>>

retrieve_context(query, language, top_k, fault) ==
    /\ alive
    /\ \E labels \in retrieve_labels(index, model, query, top_k, fault) :
          \E r \in {retrieve_context_body(index, metadata, model, query, top_k, fault,
                                          labels)} :
              /\ model' = r.model
              /\ loads' = loads + r.constructed
              /\ trace' = r.trace
              /\ ret' = [NoReturn EXCEPT !.results = r.results]
              /\ outcome' = Outcome(r.raised)
    /\ op' = RagCall("retrieve_context", query, language, top_k, fault)
    /\ hits' = <<>>
    /\ UNCHANGED <<svcVars, index, metadata, index_file, meta_file, alive, chunkVars, threads>>

get_context_string(query, language, top_k, separator, fault) ==
    /\ alive
    /\ \E labels \in retrieve_labels(index, model, query, top_k, fault) :
          \E r \in {get_context_string_body(index, metadata, model, query, top_k,
                                            separator, fault, labels)} :
              /\ model' = r.model
              /\ loads' = loads + r.constructed
              /\ trace' = r.trace
              /\ ret' = [NoReturn EXCEPT !.results = r.results, !.context = r.context]
              /\ outcome' = Outcome(r.raised)
    /\ op' = [RagCall("get_context_string", query, language, top_k, fault)
                 EXCEPT !.vec = separator]
    /\ hits' = <<>>
    /\ UNCHANGED <<svcVars, index, metadata, index_file, meta_file, alive, chunkVars, threads>>

---------------------------------------------------------------------------
(* Specification of ingestion: documents stored one after the other, with  *)
(* embedder and storage faults.                                            *)

\* the documents handed to the service: empty, blank, only special
\* characters and punctuation, a word with a special character, and three
\* words in two sentences
Documents ==
    {<<>>, <<" ">>, <<"@", ".">>, <<"a", "@">>, <<"a", " ", "b", ".", "a">>}

\* "hi" splits the three-word document in two chunks, "en" keeps it whole
IngestLanguages == {"en", "hi"}

\* the document_metadata argument: {} (also what None becomes) or one item
DocMetadata == {{}, {<<"source", "upload">>}}

\* the faults injected: none, the model fails to load, encode fails, and
\* the metadata file cannot be opened for writing
CallFaults == {"none", "model_load", "encode", "open_meta"}

NextIngest ==
    \E text \in Documents, language \in IngestLanguages,
       document_metadata \in DocMetadata, fault \in CallFaults :
        process_and_store_document(text, language, document_metadata, fault)

SpecIngest == Init /\ [][NextIngest]_vars


---------------------------------------------------------------------------
(* Properties of ingestion.                                                *)

\* the chunks the call recorded in o is made of
ChunksOf(o) == chunk_text(clean_text(o.text), o.language)

\* how many times call c occurs in the trace t
RECURSIVE Count(_, _)
Count(t, c) ==
    IF t = <<>> THEN 0 ELSE (IF Head(t) = c THEN 1 ELSE 0) + Count(Tail(t), c)

\* C12: a process_and_store_document call whose text is empty, blank or
\* yields no chunk returns 0, calls neither the embedder nor add_vector nor
\* save, and leaves the store's vectors and metadata and both artifacts on
\* disk as they were before the call.
C12_NoChunksNoEffect ==
    [][(/\ op'.name = "process_and_store_document"
        /\ (strip(op'.text) = <<>> \/ ChunksOf(op') = <<>>))
          => (/\ outcome' = "ok"
              /\ ret'.count = 0
              /\ trace' = <<"clean_text", "chunk_text">>
              /\ UNCHANGED <<index, metadata, index_file, meta_file, model, loads>>)]_vars

C12_Witness ==
    /\ op.name = "process_and_store_document"
    /\ op.text # <<>>
    /\ strip(op.text) = <<>>
    /\ ret.count = 0
    /\ ntotal(index) > 0
    /\ index_file.exists

\* the place of a call in the order clean, chunk, embed, add, save
Stage(c) ==
    IF c = "clean_text" THEN 1
    ELSE IF c = "chunk_text" THEN 2
    ELSE IF c \in {"embed_texts", "_get_model", "encode"} THEN 3
    ELSE IF c = "add_vector" THEN 4
    ELSE 5

\* C13: process_and_store_document cleans, chunks, embeds, adds each chunk
\* and saves, in that order: no add_vector before the chunks are embedded,
\* no save before the last add_vector, save at most once and exactly once
\* (after one add_vector per chunk) when the call returns a count above 0;
\* a call that fails while embedding leaves the store and both artifacts
\* as they were.
C13_StepsInOrder ==
    [][op'.name = "process_and_store_document"
          => (/\ \A i, j \in DOMAIN trace' : i < j => Stage(trace'[i]) <= Stage(trace'[j])
              /\ Count(trace', "clean_text") = 1 /\ Count(trace', "chunk_text") = 1
              /\ Count(trace', "embed_texts") <= 1 /\ Count(trace', "save") <= 1
              /\ Count(trace', "add_vector") > 0 => Count(trace', "encode") = 1
              /\ Count(trace', "save") = 1
                    => Count(trace', "add_vector") = Len(ChunksOf(op'))
              /\ (outcome' = "ok" /\ ChunksOf(op') # <<>>)
                    => (Count(trace', "save") = 1 /\ ret'.count = Len(ChunksOf(op')))
              /\ (outcome' # "ok" /\ Count(trace', "add_vector") = 0)
                    => (/\ Count(trace', "save") = 0
                        /\ UNCHANGED <<index, metadata, index_file, meta_file>>))]_vars

C13_Witness ==
    /\ op.name = "process_and_store_document"
    /\ op.fault = "encode"
    /\ outcome = "RuntimeError"
    /\ trace = <<"clean_text", "chunk_text", "embed_texts", "_get_model", "encode">>
    /\ ntotal(index) > 0

\* C14: when process_and_store_document returns n > 0 the store holds n
\* more vectors than before, the records it held are untouched, and the n
\* new metadata records are those of the chunks, in order: the i-th has
\* chunk_index i - 1 and the i-th chunk as its text.
C14_ChunksStoredInOrder ==
    [][(/\ op'.name = "process_and_store_document"
        /\ outcome' = "ok"
        /\ ret'.count > 0)
          => (/\ ret'.count = Len(ChunksOf(op'))
              /\ ntotal(index') = ntotal(index) + ret'.count
              /\ Len(metadata') = Len(metadata) + ret'.count
              /\ SubSeq(metadata', 1, Len(metadata)) = metadata
              /\ \A i \in 1..ret'.count :
                    /\ metadata'[Len(metadata) + i].chunk_index = i - 1
                    /\ metadata'[Len(metadata) + i].text = ChunksOf(op')[i])]_vars

C14_Witness ==
    /\ op.name = "process_and_store_document"
    /\ outcome = "ok"
    /\ ret.count = 2
    /\ metadata[2].chunk_index = 1


---------------------------------------------------------------------------
(* Specification of retrieval: documents are ingested, records without a  *)
(* usable text are added to the store directly, and the store is queried. *)

\* metadata a caller of add_vector may pass: no text key, or an empty text
TextlessMetas == {[language |-> "en"], [text |-> <<>>]}

\* the queries: empty, blank, and one for each of two stored vectors
Queries == {<<>>, <<" ">>, <<"a">>, <<"a", " ", "b">>}

\* the top_k argument: None (settings.TOP_K_RESULTS) and 1
TopKs == {<<>>, <<1>>}

\* the separator argument: the default "\n\n" and a bar
Separators == {<<"\n", "\n">>, <<"|">>}

NextRetrieve ==
    \/ \E text \in Documents, language \in IngestLanguages :
           process_and_store_document(text, language, {}, "none")
    \/ \E m \in TextlessMetas : add_vector(Constant(EmbeddingDim, 1), m)
    \/ \E query \in Queries, top_k \in TopKs, fault \in EmbedFaults :
           retrieve_context(query, "en", top_k, fault)
    \/ \E query \in Queries, top_k \in TopKs, separator \in Separators,
          fault \in EmbedFaults :
           get_context_string(query, "en", top_k, separator, fault)

SpecRetrieve == Init /\ [][NextRetrieve]_vars


---------------------------------------------------------------------------
(* Properties of retrieval.                                                *)

\* the query of call o cannot be embedded: it is blank, encode fails, or
\* the model is not cached and fails to load
QueryFails(o, mdl) ==
    \/ ~truthy_text(o.text)
    \/ o.fault = "encode"
    \/ o.fault = "model_load" /\ mdl = "None"

HasText(h) == "text" \in DOMAIN h /\ h.text # <<>>

\* the texts of the hits that have one, in the order of the hits
TextsOf(results) ==
    [i \in 1..Len(SelectSeq(results, HasText)) |-> SelectSeq(results, HasText)[i].text]

\* C15: retrieve_context and get_context_string always return normally and
\* leave the store and its artifacts unchanged; when the query cannot be
\* embedded they return the empty list and the empty string; otherwise the
\* results are those of a search of the store with the embedded query, and
\* the context string is the texts of those hits, in search order, joined
\* by the separator, the hits without a text being left out.
C15_RetrievalNeverRaises ==
    [][op'.name \in {"retrieve_context", "get_context_string"}
          => (/\ outcome' = "ok"
              /\ UNCHANGED <<index, metadata, index_file, meta_file>>
              /\ QueryFails(op', model) => (ret'.results = <<>> /\ ret'.context = <<>>)
              /\ ~QueryFails(op', model)
                    => \E labels \in search_labels(index, encode(op'.text),
                                                   resolve_top_k(op'.k)) :
                          ret'.results = search_body(index, metadata, encode(op'.text),
                                                     labels).hits
              /\ op'.name = "get_context_string"
                    => ret'.context = join_with(op'.vec, TextsOf(ret'.results)))]_vars

C15_Witness ==
    /\ op.name = "get_context_string"
    /\ outcome = "ok"
    /\ Len(ret.results) = 2
    /\ \E i \in 1..2 : ~HasText(ret.results[i])
    /\ ret.context # <<>>


---------------------------------------------------------------------------
(* EmbeddingService under concurrent requests.  The route handlers are    *)
(* plain functions, which the server runs on worker threads; each thread  *)
(* goes through embed_text or embed_texts one statement at a time, and    *)
(* the class attribute _model is shared and unlocked.                     *)

\* embed_text, lines 31-32: the argument is checked
thread_embed_text(t, text) ==
    /\ threads[t].pc = "idle"
    /\ threads' = [threads EXCEPT ![t] =
          IF ~truthy_text(text)
          THEN [IdleThread EXCEPT !.pc = "returned", !.fn = "embed_text", !.arg = text,
                                  !.raised = "ValueError"]
          ELSE [IdleThread EXCEPT !.pc = "get_model", !.fn = "embed_text", !.arg = text,
                                  !.texts = <<text>>]]
    /\ UNCHANGED <<svcVars, storeVars, chunkVars, model, loads, trace, ret>>

\* embed_texts, lines 45-52: the list is checked and filtered
thread_embed_texts(t, texts) ==
    /\ threads[t].pc = "idle"
    /\ threads' = [threads EXCEPT ![t] =
          IF texts = <<>> \/ kept_texts(texts) = <<>>
          THEN [IdleThread EXCEPT !.pc = "returned", !.fn = "embed_texts", !.arg = texts,
                                  !.raised = "ValueError"]
          ELSE [IdleThread EXCEPT !.pc = "get_model", !.fn = "embed_texts", !.arg = texts,
                                  !.texts = kept_texts(texts)]]
    /\ UNCHANGED <<svcVars, storeVars, chunkVars, model, loads, trace, ret>>

\* _get_model, line 18: `if cls._model is None`
thread_test_model(t) ==
    /\ threads[t].pc = "get_model"
    /\ threads' = [threads EXCEPT ![t].pc = IF model = "None" THEN "load" ELSE "encode"]
    /\ UNCHANGED <<svcVars, storeVars, chunkVars, model, loads, trace, ret>>

\* _get_model, lines 19-24: the constructor runs and its result is cached,
\* or it raises and the exception leaves embed_text / embed_texts
thread_load_model(t, fault) ==
    /\ threads[t].pc = "load"
    /\ IF fault = "model_load"
       THEN /\ threads' = [threads EXCEPT ![t].pc = "returned", ![t].raised = "OSError"]
            /\ UNCHANGED <<model, loads>>
       ELSE /\ model' = "SentenceTransformer"
            /\ loads' = loads + 1
            /\ threads' = [threads EXCEPT ![t].pc = "encode"]
    /\ UNCHANGED <<svcVars, storeVars, chunkVars, trace, ret>>

\* lines 35-36 and 55-56: encode, and the result as lists
thread_encode(t, fault) ==
    /\ threads[t].pc = "encode"
    /\ threads' = [threads EXCEPT ![t] =
          IF fault = "encode"
          THEN [@ EXCEPT !.pc = "returned", !.raised = "RuntimeError"]
          ELSE [@ EXCEPT !.pc = "returned",
                         !.value = IF threads[t].fn = "embed_text"
                                   THEN encode(threads[t].texts[1])
                                   ELSE encode_all(threads[t].texts)]]
    /\ UNCHANGED <<svcVars, storeVars, chunkVars, model, loads, trace, ret>>

\* the caller has the result or the exception; the thread takes a new request
thread_return(t) ==
    /\ threads[t].pc = "returned"
    /\ threads' = [threads EXCEPT ![t] = IdleThread]
    /\ UNCHANGED <<svcVars, storeVars, chunkVars, model, loads, trace, ret>>

\* the texts embed_text is called with: empty, blank, one word
EmbedTexts == {<<>>, <<" ">>, <<"a">>}

\* the lists embed_texts is called with: empty, one blank entry, one word,
\* two different words around a blank entry
EmbedLists == {<<>>, << <<" ">> >>, << <<"a">> >>, << <<"b">>, <<" ">>, <<"a">> >>}

NextEmbed ==
    \E t \in Threads :
        \/ \E text \in EmbedTexts : thread_embed_text(t, text)
        \/ \E texts \in EmbedLists : thread_embed_texts(t, texts)
        \/ thread_test_model(t)
        \/ \E fault \in {"none", "model_load"} : thread_load_model(t, fault)
        \/ \E fault \in {"none", "encode"} : thread_encode(t, fault)
        \/ thread_return(t)

SpecEmbed == Init /\ [][NextEmbed]_vars


---------------------------------------------------------------------------
(* Properties of the embedder.                                             *)

\* C16: the embedding model is constructed at most once in a process,
\* however many threads are inside embed_text / embed_texts and whenever
\* they reach _get_model, and only by a call whose text is not blank.
C16_ModelConstructedOnce ==
    /\ [](loads <= 1)
    /\ [][loads' # loads
             => \E t \in Threads :
                   /\ threads[t].pc = "load"
                   /\ threads[t].texts # <<>>
                   /\ \A i \in DOMAIN threads[t].texts : NonBlank(threads[t].texts[i])]_vars

\* C17: embed_text on an empty or blank text raises ValueError and never
\* reaches the model; embed_texts on an empty list or on blank entries only
\* raises ValueError; an embed_texts call that returns gives a non-empty
\* list with one vector per non-blank entry, in the order of the entries.
C17_EmbedValidation ==
    \A t \in Threads :
        /\ (threads[t].fn = "embed_text" /\ ~NonBlank(threads[t].arg))
              => (threads[t].pc = "returned" /\ threads[t].raised = "ValueError")
        /\ (threads[t].fn = "embed_texts" /\ SelectSeq(threads[t].arg, NonBlank) = <<>>)
              => (threads[t].pc = "returned" /\ threads[t].raised = "ValueError")
        /\ (/\ threads[t].fn = "embed_texts"
            /\ threads[t].pc = "returned"
            /\ threads[t].raised = "none")
              => (/\ threads[t].value # <<>>
                  /\ Len(threads[t].value) = Len(SelectSeq(threads[t].arg, NonBlank))
                  /\ \A i \in DOMAIN threads[t].value :
                        threads[t].value[i] = encode(SelectSeq(threads[t].arg, NonBlank)[i]))

C17_Witness ==
    \E t, u \in Threads :
        /\ threads[t].fn = "embed_texts"
        /\ threads[t].pc = "returned"
        /\ threads[t].raised = "none"
        /\ Len(threads[t].arg) = 3
        /\ Len(threads[t].value) = 2
        /\ threads[t].value[1] # threads[t].value[2]
        /\ threads[u].fn = "embed_text"
        /\ threads[u].raised = "ValueError"


---------------------------------------------------------------------------
(* Python float: IEEE 754 binary64, for the non-negative values the        *)
(* confidence arithmetic meets.  A natural number of any size is the       *)
(* sequence of its digits in base 4096, least significant first, without   *)
(* leading zeros.  A float is [m, e] with value m * 2^e, where m is 0      *)
(* (the empty sequence) or has exactly 53 binary digits.  Every operation  *)
(* gives the exact result rounded to the nearest float, ties to even.      *)

\* binary digits of the significand
Precision == 53

\* binary digits of one digit of a natural number
LimbBits == 12
Base == 2 ^ LimbBits

RECURSIVE NTrim(_)
NTrim(n) == IF n # <<>> /\ n[Len(n)] = 0 THEN NTrim(SubSeq(n, 1, Len(n) - 1)) ELSE n

\* n as a natural number of any size, for 0 <= n < Base^3
FromNat(n) == NTrim(<<n % Base, (n \div Base) % Base, n \div (Base * Base)>>)

\* the value of a natural number of at most two digits
ToNat(n) ==
    IF n = <<>> THEN 0 ELSE IF Len(n) = 1 THEN n[1] ELSE n[1] + Base * n[2]

Limb(n, j) == IF j >= 1 /\ j <= Len(n) THEN n[j] ELSE 0

\* binary digit i of n, counted from 1 at the least significant end
Bit(n, i) ==
    IF i < 1 THEN 0
    ELSE (Limb(n, (i - 1) \div LimbBits + 1) \div (2 ^ ((i - 1) % LimbBits))) % 2

\* how many binary digits n has
BitLen(n) ==
    IF n = <<>> THEN 0
    ELSE LimbBits * (Len(n) - 1)
            + (CHOOSE k \in 1..LimbBits : 2 ^ (k - 1) <= n[Len(n)] /\ n[Len(n)] < 2 ^ k)

\* the natural number whose binary digit i is bits[i]
FromBits(bits) ==
    NTrim([j \in 1..((Len(bits) + LimbBits - 1) \div LimbBits) |->
              SumSeq([k \in 1..LimbBits |->
                         IF LimbBits * (j - 1) + k <= Len(bits)
                         THEN bits[LimbBits * (j - 1) + k] * 2 ^ (k - 1) ELSE 0])])

\* the digits of the number whose digit j is column[j], a value that may
\* exceed Base, with the carries passed on
RECURSIVE Carried(_, _, _, _)
Carried(column, j, carry, acc) ==
    IF j > Len(column)
    THEN IF carry = 0 THEN acc ELSE Carried(<<>>, 1, carry \div Base, Append(acc, carry % Base))
    ELSE Carried(column, j + 1, (column[j] + carry) \div Base,
                 Append(acc, (column[j] + carry) % Base))

NAdd(a, b) ==
    NTrim(Carried([j \in 1..Max(Len(a), Len(b)) |-> Limb(a, j) + Limb(b, j)], 1, 0, <<>>))

NMul(a, b) ==
    IF a = <<>> \/ b = <<>> THEN <<>>
    ELSE NTrim(Carried([k \in 1..(Len(a) + Len(b) - 1) |->
                           SumSeq([i \in 1..Len(a) |-> a[i] * Limb(b, k - i + 1)])],
                       1, 0, <<>>))

\* n * 2^k and n \div 2^k
NShl(n, k) == FromBits([i \in 1..(BitLen(n) + k) |-> Bit(n, i - k)])
NShr(n, k) == FromBits([i \in 1..Max(0, BitLen(n) - k) |-> Bit(n, i + k)])

\* a < b, for a and b with the same number of digits
RECURSIVE NLess(_, _)
NLess(a, b) ==
    IF a = <<>> THEN FALSE
    ELSE IF a[Len(a)] # b[Len(b)] THEN a[Len(a)] < b[Len(b)]
    ELSE NLess(SubSeq(a, 1, Len(a) - 1), SubSeq(b, 1, Len(b) - 1))

\* n \div d and n % d for a small divisor d, digit by digit from the top
RECURSIVE NDivSmall(_, _, _, _, _)
NDivSmall(n, d, j, rem, acc) ==
    IF j = 0 THEN [quotient |-> NTrim(acc), remainder |-> rem]
    ELSE NDivSmall(n, d, j - 1, (rem * Base + n[j]) % d,
                   <<(rem * Base + n[j]) \div d>> \o acc)

FZero == [m |-> <<>>, e |-> 0]

\* the float nearest to n * 2^e, ties to even
FRound(n, e) ==
    IF n = <<>> THEN FZero
    ELSE IF BitLen(n) <= Precision
    THEN [m |-> NShl(n, Precision - BitLen(n)), e |-> e - (Precision - BitLen(n))]
    ELSE LET sh == BitLen(n) - Precision
             up == /\ Bit(n, sh) = 1
                   /\ (Bit(n, sh + 1) = 1 \/ \E i \in 1..(sh - 1) : Bit(n, i) = 1)
             r == IF up THEN NAdd(NShr(n, sh), <<1>>) ELSE NShr(n, sh)
         IN  IF BitLen(r) > Precision
             THEN [m |-> NShr(r, 1), e |-> e + sh + 1]
             ELSE [m |-> r, e |-> e + sh]

\* binary digits a dividend is extended by before it is divided
QuotientBits == 72

\* a / b for integers 0 <= a < Base^2 and 0 < b < Base^2: the quotient of
\* a * 2^QuotientBits by b, with one more digit that is 1 when the division
\* has a remainder, rounded
FDivInt(a, b) ==
    LET n == NShl(FromNat(a), QuotientBits)
        d == NDivSmall(n, b, Len(n), 0, <<>>)
    IN  FRound(NAdd(NShl(d.quotient, 1), IF d.remainder = 0 THEN <<>> ELSE <<1>>),
               0 - (QuotientBits + 1))

\* float(n)
FromInt(n) == FRound(FromNat(n), 0)

FMul(x, y) ==
    IF x.m = <<>> \/ y.m = <<>> THEN FZero ELSE FRound(NMul(x.m, y.m), x.e + y.e)

FAdd(x, y) ==
    IF x.m = <<>> THEN y
    ELSE IF y.m = <<>> THEN x
    ELSE FRound(NAdd(NShl(x.m, x.e - Min(x.e, y.e)), NShl(y.m, y.e - Min(x.e, y.e))),
                Min(x.e, y.e))

\* x < y
FLess(x, y) ==
    IF y.m = <<>> THEN FALSE
    ELSE IF x.m = <<>> THEN TRUE
    ELSE x.e < y.e \/ (x.e = y.e /\ NLess(x.m, y.m))

\* int(x), for x < Base^2
FTrunc(x) ==
    IF x.m = <<>> \/ 0 - x.e >= Precision THEN 0
    ELSE IF x.e >= 0 THEN ToNat(NShl(x.m, x.e))
    ELSE ToNat(NShr(x.m, 0 - x.e))

---------------------------------------------------------------------------
(* EnhancedRAGService                                                      *)

\* `result.get("similarity", 0)`, as a float
get_similarity(result) ==
    IF "similarity" \in DOMAIN result THEN result.similarity ELSE FZero

\* `result.get("document_name")` is truthy
has_document_name(result) ==
    "document_name" \in DOMAIN result /\ result.document_name # <<>>

\* _calculate_confidence, line 93: min(100, result.get("similarity", 0) * 100)
similarity_percent(result) ==
    IF FLess(FMul(get_similarity(result), FromInt(100)), FromInt(100))
    THEN FMul(get_similarity(result), FromInt(100))
    ELSE FromInt(100)

\* _calculate_confidence, line 97: ((total - rank) / total) * 100 * 0.3
rank_score(rank, total) ==
    FMul(FMul(FDivInt(total - rank, total), FromInt(100)), FDivInt(3, 10))

\* _calculate_confidence, line 100
metadata_score(result) == IF has_document_name(result) THEN 10 ELSE 5

\* _calculate_confidence: the weighted sum, truncated by int() and clamped;
\* 50 when the arithmetic raises (total is 0)
calculate_confidence(result, rank, total) ==
    IF total = 0 THEN 50
    ELSE Min(100, Max(0,
             FTrunc(FAdd(FAdd(FMul(similarity_percent(result), FDivInt(6, 10)),
                              rank_score(rank, total)),
                         FromInt(metadata_score(result))))))


\* str(n) for n >= 0
RECURSIVE Str(_)
Str(n) ==
    IF n < 10 THEN <<<<"0", "1", "2", "3", "4", "5", "6", "7", "8", "9">>[n + 1]>>
    ELSE Str(n \div 10) \o Str(n % 10)

\* retrieve_with_citations, lines 63-66:
\* result.get("document_name", f"Document {result.get('chunk_index', 1)}")
document_of(result) ==
    IF "document_name" \in DOMAIN result THEN result.document_name
    ELSE <<"D", "o", "c", "u", "m", "e", "n", "t", " ">>
             \o Str(IF "chunk_index" \in DOMAIN result THEN result.chunk_index ELSE 1)

\* retrieve_with_citations, lines 57-68: the source made of one result
cite_source(result, rank, total) ==
    [text |-> IF "text" \in DOMAIN result THEN result.text ELSE <<>>,
     confidence |-> calculate_confidence(result, rank, total),
     similarity |-> get_similarity(result),
     rank |-> rank,
     document |-> document_of(result)]

\* retrieve_with_citations, lines 55-70: one source per result, in order
cite_sources(results) ==
    <<>> \o [i \in 1..Len(results) |-> cite_source(results[i], i, Len(results))]

\* total_confidence, lines 53 and 70
total_confidence(sources) == SumSeq([i \in 1..Len(sources) |-> sources[i].confidence])

\* (variant of average_confidence: the mean is rounded to the nearest integer)
average_confidence_nearest(total, n) == (2 * total + n) \div (2 * n)

\* retrieve_with_citations, line 72: int(total_confidence / len(sources))
average_confidence(total, n) == FTrunc(FDivInt(total, n))

\* _format_context_with_citations, line 114: the citation marker of a source
citation_marker(source) ==
    <<"[", "S", "o", "u", "r", "c", "e", " ">> \o Str(source.rank) \o <<":", " ">>
        \o source.document
        \o <<" ", "(", "C", "o", "n", "f", "i", "d", "e", "n", "c", "e", ":", " ">>
        \o Str(source.confidence) \o <<"%", ")", "]">>

\* (variant of format_context_with_citations: the sources follow each other
\* without a blank line)
format_context_with_citations_packed(sources) ==
    join_with(<<"\n">>,
              <<>> \o [i \in 1..Len(sources) |->
                          sources[i].text \o <<"\n">> \o citation_marker(sources[i])])

\* _format_context_with_citations
format_context_with_citations(sources) ==
    join_with(<<"\n", "\n">>,
              <<>> \o [i \in 1..Len(sources) |->
                          sources[i].text \o <<"\n">> \o citation_marker(sources[i])])

\* retrieve_with_citations: the results of retrieve_context, each made a
\* source with its confidence; the empty answer when there is no result
retrieve_with_citations_body(idx, md, mdl, query, top_k, fault, labels) ==
    LET r == CHOOSE r \in {retrieve_context_body(idx, md, mdl, query, top_k, fault,
                                                 labels)} : TRUE
        sources == CHOOSE s \in {cite_sources(r.results)} : TRUE
    IN  IF r.raised # "none" \/ r.results = <<>>
        THEN [raised |-> "none", results |-> <<>>, context |-> <<>>, sources |-> <<>>,
              average_confidence |-> 0, model |-> r.model,
              constructed |-> r.constructed, trace |-> <<"retrieve_context">> \o r.trace]
        ELSE [raised |-> "none", results |-> r.results,
              context |-> format_context_with_citations(sources),
              sources |-> sources,
              average_confidence |-> average_confidence(total_confidence(sources),
                                                        Len(sources)),
              model |-> r.model, constructed |-> r.constructed,
              trace |-> <<"retrieve_context">> \o r.trace]

retrieve_with_citations(query, language, top_k, fault) ==
    /\ alive
    /\ \E labels \in retrieve_labels(index, model, query, top_k, fault) :
          \E r \in {retrieve_with_citations_body(index, metadata, model, query, top_k,
                                                 fault, labels)} :
              /\ model' = r.model
              /\ loads' = loads + r.constructed
              /\ trace' = r.trace
              /\ ret' = [NoReturn EXCEPT !.results = r.results, !.context = r.context,
                                         !.sources = r.sources,
                                         !.average_confidence = r.average_confidence]
              /\ outcome' = Outcome(r.raised)
    /\ op' = RagCall("retrieve_with_citations", query, language, top_k, fault)
    /\ hits' = <<>>
    /\ UNCHANGED <<svcVars, index, metadata, index_file, meta_file, alive, chunkVars, threads>>

---------------------------------------------------------------------------
(* Specification of the confidence calculation: _calculate_confidence on   *)
(* every result, rank and total of the sets below.                         *)

\* similarities as fractions <<numerator, denominator>> that a float holds
\* exactly: 0, 1/4, 1/2, 1 and 3/2
Similarities == {<<0, 1>>, <<1, 4>>, <<1, 2>>, <<1, 1>>, <<3, 2>>}

\* a document name
GuideName == <<"g", ".", "p", "d", "f">>

\* the results: without the two keys, with a similarity, with a document
\* name, with both
ConfidenceResults ==
    {[text |-> <<"a">>], [text |-> <<"a">>, document_name |-> GuideName]}
        \cup {[text |-> <<"a">>, similarity |-> FDivInt(s[1], s[2])] : s \in Similarities}
        \cup {[text |-> <<"a">>, similarity |-> FDivInt(s[1], s[2]),
               document_name |-> GuideName] : s \in Similarities}

\* the similarity of a result as a fraction
SimilarityOf(result) ==
    IF "similarity" \notin DOMAIN result THEN <<0, 1>>
    ELSE CHOOSE s \in Similarities : FDivInt(s[1], s[2]) = result.similarity

ConfidenceCalls ==
    {[name |-> "_calculate_confidence", result |-> r, rank |-> k, total |-> n] :
        r \in ConfidenceResults, k \in 1..MaxResults, n \in 1..MaxResults}

InitConfidence ==
    /\ index = <<>>
    /\ metadata = <<>>
    /\ index_file = NoFile
    /\ meta_file = NoFile
    /\ alive = TRUE
    /\ op \in {c \in ConfidenceCalls : c.rank <= c.total}
    /\ outcome = "ok"
    /\ hits = <<>>
    /\ arg_text = <<>>
    /\ arg_language = "en"
    /\ ret_chunks = <<>>
    /\ pc = "start"
    /\ RagIdle

call_calculate_confidence ==
    /\ pc = "start"
    /\ op.name = "_calculate_confidence"
    /\ ret' = [NoReturn EXCEPT !.confidence = calculate_confidence(op.result, op.rank,
                                                                   op.total)]
    /\ pc' = "done"
    /\ UNCHANGED <<svcVars, index, metadata, index_file, meta_file, alive, op, outcome, hits,
                   arg_text, arg_language, ret_chunks, model, loads, trace, threads>>

NextConfidence == call_calculate_confidence

SpecConfidence == InitConfidence /\ [][NextConfidence]_vars

\* The value of the blend for the call o, times Similarity's denominator
\* and the total: 60 * min(1, s) + 30 * (total - rank) / total + bonus.
BlendTimes(o, d) ==
    60 * Min(SimilarityOf(o.result)[1], SimilarityOf(o.result)[2]) * o.total
        + 30 * (o.total - o.rank) * d
        + (IF "document_name" \in DOMAIN o.result THEN 10 ELSE 5) * d * o.total

\* C18: the confidence of a hit is 0.6 * min(100, 100 s) + 0.3 * 100 *
\* (total - rank) / total + bonus, the bonus being 10 with a document name
\* and 5 without, clamped to 0..100 (as an integer: less than 1 away from
\* that value); it always lies in 0..100; and for s = 1, rank 1 of 1, with
\* a document name, it is 70.
C18_ConfidenceBlend ==
    (pc = "done" /\ op.name = "_calculate_confidence")
        => LET d == SimilarityOf(op.result)[2]
               v == BlendTimes(op, d)
               unit == d * op.total
               clamped == Min(100 * unit, Max(0, v))
           IN  /\ ret.confidence \in 0..100
               /\ ret.confidence * unit > clamped - unit
               /\ ret.confidence * unit < clamped + unit
               /\ (/\ SimilarityOf(op.result) = <<1, 1>>
                   /\ op.rank = 1 /\ op.total = 1
                   /\ "document_name" \in DOMAIN op.result) => ret.confidence = 70


---------------------------------------------------------------------------
(* Specification of retrieval with citations: the service is constructed   *)
(* over a store that an earlier process saved, records are added, and the  *)
(* store is queried with retrieve_with_citations.                          *)

\* most records in the store the service is constructed over
MaxCited == 3

\* the records of that store: a chunk as ingestion stores it, and two
\* records added with a document name
CiteMetas ==
    {chunk_metadata(<<"a">>, "en", 0, {}),
     [text |-> <<"b">>, document_name |-> GuideName],
     [text |-> <<"a", " ", "b">>, document_name |-> GuideName]}

CitedStores == UNION {[1..n -> CiteMetas] : n \in 0..MaxCited}

CiteQueries == {<<" ">>, <<"a">>}

\* the top_k argument: the default of retrieve_with_citations, and 1
CiteTopKs == {<<5>>, <<1>>}

\* the embedder works, or its encode fails
CiteFaults == {"none", "encode"}

\* __init__ of the store over the artifacts of an earlier process
InitCite ==
    /\ metadata \in CitedStores
    /\ index = encode_all(TextsOf(metadata))
    /\ index_file = IF metadata = <<>> THEN NoFile ELSE File(write_index(index))
    /\ meta_file = IF metadata = <<>> THEN NoFile ELSE File(pickle_dump(metadata))
    /\ alive = TRUE
    /\ op = Call("construct", <<>>, 0, "none")
    /\ outcome = "ok"
    /\ hits = <<>>
    /\ ChunkIdle
    /\ RagIdle

NextCite ==
    \/ process_and_store_document(<<"a">>, "en", {}, "none")
    \/ \E m \in CiteMetas : add_vector(encode(m.text), m)
    \/ \E query \in CiteQueries, top_k \in CiteTopKs, fault \in CiteFaults :
           retrieve_with_citations(query, "en", top_k, fault)

SpecCite == InitCite /\ [][NextCite]_vars


---------------------------------------------------------------------------
(* Properties of retrieval with citations.                                 *)

\* the call that returned is retrieve_with_citations, with sources
Cited == op.name = "retrieve_with_citations" /\ ret.sources # <<>>

\* C19: every source is made of the search hit at its rank: its similarity
\* is that hit's similarity_score, 1 / (1 + distance), and that value is
\* the similarity term of its confidence, so that a hit at distance 0 has
\* the full 60 points of the similarity term in its confidence.
C19_SourceCarriesHitSimilarity ==
    Cited => /\ Len(ret.sources) = Len(ret.results)
             /\ \A i \in 1..Len(ret.sources) :
                   /\ ret.sources[i].rank = i
                   /\ ret.sources[i].similarity
                          = FDivInt(ret.results[i].similarity_score.num,
                                    ret.results[i].similarity_score.den)
                   /\ ret.results[i].distance = 0 => ret.sources[i].confidence >= 60

\* C20, as stated: average_confidence is the mean of the confidences of the
\* sources, rounded to the nearest integer (a tie either way).
C20_MeanRoundedToNearest ==
    Cited => LET n == Len(ret.sources)
                 d == ret.average_confidence * n - total_confidence(ret.sources)
             IN  2 * d <= n /\ 2 * d >= -n

\* C20, amended: average_confidence is the mean of the confidences of the
\* sources with its fraction dropped.
C20_MeanTruncated ==
    Cited => ret.average_confidence
                 = total_confidence(ret.sources) \div Len(ret.sources)

\* three sources whose mean has a fraction above one half
C20_Witness ==
    /\ Cited
    /\ Len(ret.sources) = 3
    /\ total_confidence(ret.sources) % 3 = 2
    /\ ret.average_confidence = total_confidence(ret.sources) \div 3


---------------------------------------------------------------------------
(* EnhancedRAGService.should_generate_answer                               *)

\* the threshold argument: <<>> when it is left out (the default, 50)
DEFAULT_THRESHOLD == 50
resolve_threshold(threshold) ==
    IF threshold = <<>> THEN DEFAULT_THRESHOLD ELSE threshold[1]

\* (variant of sufficient: the threshold itself is not enough)
sufficient_above(confidence, threshold) == confidence > threshold

\* should_generate_answer, line 158
sufficient(confidence, threshold) == confidence >= threshold

\* line 159: "Sufficient confidence in available knowledge"
SufficientReason ==
    <<"S", "u", "f", "f", "i", "c", "i", "e", "n", "t", " ", "c", "o", "n", "f", "i", "d", "e", "n", "c", "e", " ", "i", "n", " ", "a", "v", "a", "i", "l", "a", "b", "l", "e", " ", "k", "n", "o", "w", "l", "e", "d", "g", "e">>

\* line 163: f"Confidence ({confidence}%) below threshold ({threshold}%). May
\* provide inaccurate information."
below_threshold_reason(confidence, threshold) ==
    <<"C", "o", "n", "f", "i", "d", "e", "n", "c", "e", " ", "(">> \o Str(confidence)
        \o <<"%", ")", " ", "b", "e", "l", "o", "w", " ", "t", "h", "r", "e", "s", "h", "o", "l", "d", " ", "(">> \o Str(threshold)
        \o <<"%", ")", ".", " ", "M", "a", "y", " ", "p", "r", "o", "v", "i", "d", "e", " ", "i", "n", "a", "c", "c", "u", "r", "a", "t", "e", " ", "i", "n", "f", "o", "r", "m", "a", "t", "i", "o", "n", ".">>

should_generate_answer_body(confidence, threshold) ==
    IF sufficient(confidence, resolve_threshold(threshold))
    THEN [generate |-> TRUE, reason |-> SufficientReason]
    ELSE [generate |-> FALSE,
          reason |-> below_threshold_reason(confidence, resolve_threshold(threshold))]

should_generate_answer ==
    /\ pc = "start"
    /\ op.name = "should_generate_answer"
    /\ \E r \in {should_generate_answer_body(op.confidence, op.threshold)} :
           ret' = [NoReturn EXCEPT !.generate = r.generate, !.reason = r.reason]
    /\ pc' = "done"
    /\ UNCHANGED <<svcVars, index, metadata, index_file, meta_file, alive, op, outcome, hits,
                   arg_text, arg_language, ret_chunks, model, loads, trace, threads>>

---------------------------------------------------------------------------
(* Specification of the answer gate: should_generate_answer on every       *)
(* confidence and threshold of the sets below.                             *)

Confidences == {0, 9, 10, 40, 49, 50, 51, 60, 99, 100}

\* the threshold argument: left out, or given
Thresholds == {<<>>, <<0>>, <<10>>, <<50>>, <<60>>, <<100>>}

AnswerCalls ==
    {[name |-> "should_generate_answer", confidence |-> c, threshold |-> t] :
        c \in Confidences, t \in Thresholds}

InitAnswer ==
    /\ index = <<>>
    /\ metadata = <<>>
    /\ index_file = NoFile
    /\ meta_file = NoFile
    /\ alive = TRUE
    /\ op \in AnswerCalls
    /\ outcome = "ok"
    /\ hits = <<>>
    /\ arg_text = <<>>
    /\ arg_language = "en"
    /\ ret_chunks = <<>>
    /\ pc = "start"
    /\ RagIdle

NextAnswer == should_generate_answer

SpecAnswer == InitAnswer /\ [][NextAnswer]_vars

\* sub occurs in s as a run of consecutive characters
Contains(s, sub) ==
    \E i \in 0..(Len(s) - Len(sub)) : SubSeq(s, i + 1, i + Len(sub)) = sub

\* C21: should_generate_answer returns true exactly when the confidence is
\* at least the threshold (50 when no threshold is given); when it returns
\* false the reason contains the confidence and the threshold in decimal;
\* (40, 50) gives false and (60, 50) gives true.
C21_AnswerGate ==
    (pc = "done" /\ op.name = "should_generate_answer")
        => LET t == IF op.threshold = <<>> THEN 50 ELSE op.threshold[1]
           IN  /\ ret.generate <=> op.confidence >= t
               /\ ~ret.generate => /\ Contains(ret.reason, Str(op.confidence))
                                   /\ Contains(ret.reason, Str(t))
               /\ (op.confidence = 40 /\ t = 50) => ~ret.generate
               /\ (op.confidence = 60 /\ t = 50) => ret.generate

\* the gate has answered at the threshold itself, and has refused (40, 50)
C21_Witness ==
    /\ pc = "done"
    /\ op.name = "should_generate_answer"
    /\ \/ op.confidence = 50 /\ op.threshold = <<>> /\ ret.generate
       \/ op.confidence = 40 /\ op.threshold = <<50>> /\ ~ret.generate


\* the text of source i of the answer, a line break, and its marker
\* "[Source i: document (Confidence: c%)]"
RenderedSource(i) ==
    (IF "text" \in DOMAIN ret.results[i] THEN ret.results[i].text ELSE <<>>)
        \o <<"\n">> \o <<"[", "S", "o", "u", "r", "c", "e", " ">> \o Str(i) \o <<":", " ">>
        \o ret.sources[i].document
        \o <<" ", "(", "C", "o", "n", "f", "i", "d", "e", "n", "c", "e", ":", " ">> \o Str(ret.sources[i].confidence) \o <<"%", ")", "]">>

\* sources i..n of the answer rendered, a blank line between two of them
RECURSIVE RenderedFrom(_)
RenderedFrom(i) ==
    IF i > Len(ret.sources) THEN <<>>
    ELSE IF i = Len(ret.sources) THEN RenderedSource(i)
    ELSE RenderedSource(i) \o <<"\n", "\n">> \o RenderedFrom(i + 1)

\* C22: retrieve_with_citations makes one source of every hit of the search,
\* in the order of the hits and ranked 1..n; its context is, source after
\* source in that order, the text, a line break and the marker
\* "[Source rank: document (Confidence: confidence%)]", with a blank line
\* between two sources; with no hit it returns the empty context, no source
\* and the average confidence 0.
C22_CitationsNumberedAndRendered ==
    op.name = "retrieve_with_citations"
        => /\ Len(ret.sources) = Len(ret.results)
           /\ \E labels \in retrieve_labels(index, model, op.text, op.k, op.fault) :
                 ret.results = IF QueryFails(op, model) THEN <<>>
                               ELSE search_body(index, metadata, encode(op.text), labels).hits
           /\ \A i \in 1..Len(ret.sources) :
                 /\ ret.sources[i].rank = i
                 /\ ret.sources[i].text = ret.results[i].text
           /\ ret.context = RenderedFrom(1)
           /\ ret.results = <<>> => /\ ret.context = <<>>
                                    /\ ret.sources = <<>>
                                    /\ ret.average_confidence = 0

\* two hits were cited, and their context holds both markers
C22_Witness ==
    /\ op.name = "retrieve_with_citations"
    /\ Len(ret.sources) = 2
    /\ ret.sources[1].document # ret.sources[2].document
    /\ Contains(ret.context, <<"\n", "\n">> \o ret.sources[2].text \o <<"\n", "[">>)


---------------------------------------------------------------------------
(* VectorStore under concurrent callers: add_vector and search, statement  *)
(* by statement, on the store all request threads share.  No statement of  *)
(* either method takes a lock.  index.add and index.search are taken as    *)
(* one step each.                                                          *)

\* a thread that is not inside a VectorStore call
StoreIdle ==
    [pc |-> "idle", fn |-> "", vec |-> <<>>, meta |-> [text |-> <<>>], k |-> 0,
     n |-> 0, labels |-> <<>>, results |-> <<>>, raised |-> "none"]

\* the calls in flight between index.add and metadata.append
InFlight == {t \in Threads : threads[t].pc = "metadata_append"}

\* the calls that have passed the validation and not yet done index.add
Admitted == {t \in Threads : threads[t].pc = "index_add"}

\* add_vector, lines 36-38: the vector is checked (no shared state is read)
thread_add_vector(t, v, m) ==
    /\ threads[t].pc = "idle"
    /\ valid_vector(v) => ntotal(index) + Cardinality(Admitted) < MaxVectors
    /\ threads' = [threads EXCEPT ![t] =
          IF ~valid_vector(v)
          THEN [StoreIdle EXCEPT !.pc = "returned", !.fn = "add_vector", !.vec = v,
                                 !.meta = m, !.raised = "ValueError"]
          ELSE [StoreIdle EXCEPT !.pc = "index_add", !.fn = "add_vector", !.vec = v,
                                 !.meta = m]]
    /\ UNCHANGED <<svcVars, storeVars, chunkVars, model, loads, trace, ret>>

\* (variant of index_add: the vector is dropped)
index_add_dropped(idx, v) == idx

\* add_vector, line 41: self.index.add(vector_array)
index_add(idx, v) == Append(idx, v)

thread_index_add(t) ==
    /\ threads[t].pc = "index_add"
    /\ index' = index_add(index, threads[t].vec)
    /\ threads' = [threads EXCEPT ![t].pc = "metadata_append"]
    /\ UNCHANGED <<svcVars, metadata, index_file, meta_file, alive, op, outcome, hits, chunkVars,
                   model, loads, trace, ret>>

\* add_vector, line 42: self.metadata.append(metadata)
thread_metadata_append(t) ==
    /\ threads[t].pc = "metadata_append"
    /\ metadata' = Append(metadata, threads[t].meta)
    /\ threads' = [threads EXCEPT ![t].pc = "returned"]
    /\ UNCHANGED <<svcVars, index, index_file, meta_file, alive, op, outcome, hits, chunkVars,
                   model, loads, trace, ret>>

\* search is called
thread_search(t, q, top_k) ==
    /\ threads[t].pc = "idle"
    /\ threads' = [threads EXCEPT ![t] =
          [StoreIdle EXCEPT !.pc = "search_check", !.fn = "search", !.vec = q, !.k = top_k]]
    /\ UNCHANGED <<svcVars, storeVars, chunkVars, model, loads, trace, ret>>

\* search, lines 65-70: [] on an empty index; a query of another dimension
\* raises inside the try block, which returns []
thread_search_check(t) ==
    /\ threads[t].pc = "search_check"
    /\ threads' = [threads EXCEPT ![t].pc =
          IF ntotal(index) = 0 \/ Len(threads[t].vec) # EmbeddingDim
          THEN "returned" ELSE "search_k"]
    /\ UNCHANGED <<svcVars, storeVars, chunkVars, model, loads, trace, ret>>

\* search, line 73: min(top_k, self.index.ntotal) is evaluated
thread_search_k(t) ==
    /\ threads[t].pc = "search_k"
    /\ threads' = [threads EXCEPT ![t].n = search_k(index, threads[t].k),
                                  ![t].pc = "index_search"]
    /\ UNCHANGED <<svcVars, storeVars, chunkVars, model, loads, trace, ret>>

\* search, line 73: self.index.search(query, n)
thread_index_search(t) ==
    /\ threads[t].pc = "index_search"
    /\ \E labels \in IndexSearch(index, threads[t].vec, threads[t].n) :
           threads' = [threads EXCEPT ![t].labels = labels, ![t].pc = "results"]
    /\ UNCHANGED <<svcVars, storeVars, chunkVars, model, loads, trace, ret>>

\* (variant of result_step: a position without a metadata record is passed
\* over)
result_step_skip(idx, md, q, label, results) ==
    IF ~valid_label(label) \/ label + 1 > Len(md) THEN [raised |-> "none", hits |-> results]
    ELSE [raised |-> "none", hits |-> Append(results, search_hit(idx, md, q, label))]

\* search, lines 76-81: one turn of the loop over the labels
result_step(idx, md, q, label, results) ==
    IF ~valid_label(label) THEN [raised |-> "none", hits |-> results]
    ELSE IF label + 1 > Len(md) THEN [raised |-> "IndexError", hits |-> <<>>]
    ELSE [raised |-> "none", hits |-> Append(results, search_hit(idx, md, q, label))]

\* search, lines 76-86: the next label is turned into a result; the list is
\* returned after the last one, and [] as soon as a turn raises
thread_result(t) ==
    /\ threads[t].pc = "results"
    /\ \E r \in {IF threads[t].labels = <<>>
                 THEN [raised |-> "none", hits |-> threads[t].results]
                 ELSE result_step(index, metadata, threads[t].vec,
                                  Head(threads[t].labels), threads[t].results)} :
           threads' = [threads EXCEPT
               ![t].results = r.hits,
               ![t].labels = IF threads[t].labels = <<>> THEN <<>>
                             ELSE Tail(threads[t].labels),
               ![t].raised = r.raised,
               ![t].pc = IF r.raised # "none" \/ Len(threads[t].labels) <= 1
                         THEN "returned" ELSE "results"]
    /\ UNCHANGED <<svcVars, storeVars, chunkVars, model, loads, trace, ret>>

\* the caller has the result or the exception; the thread takes a new request
thread_leave(t) ==
    /\ threads[t].pc = "returned"
    /\ threads' = [threads EXCEPT ![t] = StoreIdle]
    /\ UNCHANGED <<svcVars, storeVars, chunkVars, model, loads, trace, ret>>

---------------------------------------------------------------------------
(* Specification of the shared store: every request thread adds vectors    *)
(* and searches, in any interleaving of their statements.                  *)

\* the texts that are ingested, each with its embedding
SharedTexts == {<<"a">>, <<"b">>}

\* the queries: two of the store's dimension, one that is not
SharedQueries == {<<1, 0>>, <<1, 1>>, <<1>>}

InitShared ==
    /\ StoreInit
    /\ ChunkIdle
    /\ model = "None"
    /\ loads = 0
    /\ trace = <<>>
    /\ ret = NoReturn
    /\ threads = [t \in Threads |-> StoreIdle]
    /\ rag_service = 0
    /\ constructed = 0

NextShared ==
    \E t \in Threads :
        \/ \E text \in SharedTexts : thread_add_vector(t, encode(text), [text |-> text])
        \/ thread_add_vector(t, <<>>, [text |-> <<"a">>])
        \/ thread_index_add(t)
        \/ thread_metadata_append(t)
        \/ \E q \in SharedQueries, top_k \in 1..MaxK : thread_search(t, q, top_k)
        \/ thread_search_check(t)
        \/ thread_search_k(t)
        \/ thread_index_search(t)
        \/ thread_result(t)
        \/ thread_leave(t)

SpecShared == InitShared /\ [][NextShared]_vars


---------------------------------------------------------------------------
(* Properties of the shared store.                                         *)

\* C23: with add_vector calls of several threads in progress the store can
\* hold more vectors than metadata records: the index is ahead of the
\* metadata by one entry for every call that has added its vector and not
\* yet appended its record, and every other thread sees that state.
C23_CountsApartWhileAdding ==
    /\ ntotal(index) - Len(metadata) = Cardinality(InFlight)
    /\ Len(metadata) # ntotal(index) <=> InFlight # {}

\* two ingestion calls are in progress, one of them between its two
\* appends, and the counts differ
C23_Witness ==
    /\ \A t \in Threads : threads[t].fn = "add_vector" /\ threads[t].pc # "returned"
    /\ InFlight # {}
    /\ Len(metadata) # ntotal(index)


\* the lists a search for the n nearest of q returns on the store when it
\* runs alone, the index holding its first m vectors
AloneResults(q, n, m) ==
    {search_body(index, metadata, q, labels).hits :
        labels \in IndexSearch(SubSeq(index, 1, m), q, n)}

\* C24: a search that gets through its loop returns what a search running
\* alone returns, the min(k, N) nearest hits of the index it searched, so
\* searches among searches are not disturbed; a search whose loop reaches a
\* position without a metadata record does so only while an add_vector call
\* is between its vector append and its metadata append, and returns the
\* empty list instead of those hits.
C24_SearchDuringAdd ==
    [][\A t \in Threads :
          (threads[t].pc = "results" /\ threads'[t].pc = "returned")
              => \/ /\ threads'[t].raised = "none"
                    /\ Len(threads'[t].results) = threads[t].n
                    /\ \E m \in threads[t].n..ntotal(index) :
                          threads'[t].results \in AloneResults(threads[t].vec,
                                                               threads[t].n, m)
                 \/ /\ threads'[t].raised = "IndexError"
                    /\ threads'[t].results = <<>>
                    /\ threads[t].n > 0
                    /\ Head(threads[t].labels) >= Len(metadata)
                    /\ InFlight # {}]_vars

\* a search has returned the empty list from a store that holds a vector,
\* after it met a position without a metadata record
C24_Witness ==
    \E t \in Threads :
        /\ threads[t].fn = "search"
        /\ threads[t].pc = "returned"
        /\ threads[t].raised = "IndexError"
        /\ threads[t].results = <<>>
        /\ threads[t].n >= 1


\* no add_vector call is in progress
AddsReturned == \A t \in Threads : threads[t].pc \notin {"index_add", "metadata_append"}

\* C27: once the add_vector calls of all threads have returned, the record
\* at every position of the metadata is the one that was passed with the
\* vector at that position of the index (here: the vector is the embedding
\* of the record's text), so a search returns for a vector its own text.
C27_RecordsFollowVectors ==
    AddsReturned => /\ Len(metadata) = ntotal(index)
                    /\ \A i \in 1..Len(metadata) : index[i] = encode(metadata[i].text)


---------------------------------------------------------------------------
(* rag_service.get_rag_service under concurrent callers, statement by      *)
(* statement.  The global _rag_service is tested and assigned without a    *)
(* lock.  RAGService objects are numbered in the order of construction.    *)

\* a thread that is not inside get_rag_service
ServiceIdle == [pc |-> "idle", fn |-> "", made |-> 0, value |-> 0, raised |-> "none"]

\* get_rag_service is called
thread_get_rag_service(t) ==
    /\ threads[t].pc = "idle"
    /\ threads' = [threads EXCEPT ![t] =
          [ServiceIdle EXCEPT !.pc = "test_service", !.fn = "get_rag_service"]]
    /\ UNCHANGED <<storeVars, chunkVars, model, loads, trace, ret, svcVars>>

\* line 102: `_rag_service is None`
service_missing(service) == service = 0

thread_test_service(t) ==
    /\ threads[t].pc = "test_service"
    /\ threads' = [threads EXCEPT ![t].pc =
          IF service_missing(rag_service) THEN "construct_service" ELSE "return_service"]
    /\ UNCHANGED <<storeVars, chunkVars, model, loads, trace, ret, svcVars>>

\* line 103, right-hand side: RAGService() constructs a VectorStore, which
\* loads the artifacts; the exception of a failed load is passed on
thread_construct_service(t, fault) ==
    /\ threads[t].pc = "construct_service"
    /\ IF fault = "none"
       THEN /\ constructed' = constructed + 1
            /\ threads' = [threads EXCEPT ![t].made = constructed + 1,
                                          ![t].pc = "assign_service"]
       ELSE /\ constructed' = constructed
            /\ threads' = [threads EXCEPT ![t].raised = "OSError", ![t].pc = "returned"]
    /\ UNCHANGED <<storeVars, chunkVars, model, loads, trace, ret, rag_service>>

\* line 103: the new object is bound to _rag_service
thread_assign_service(t) ==
    /\ threads[t].pc = "assign_service"
    /\ rag_service' = threads[t].made
    /\ threads' = [threads EXCEPT ![t].pc = "return_service"]
    /\ UNCHANGED <<storeVars, chunkVars, model, loads, trace, ret, constructed>>

\* line 104: return _rag_service (the global is read again)
thread_return_service(t) ==
    /\ threads[t].pc = "return_service"
    /\ threads' = [threads EXCEPT ![t].value = rag_service, ![t].pc = "returned"]
    /\ UNCHANGED <<storeVars, chunkVars, model, loads, trace, ret, svcVars>>

\* the caller has the instance or the exception; the thread calls again
thread_service_leave(t) ==
    /\ threads[t].pc = "returned"
    /\ threads' = [threads EXCEPT ![t] = ServiceIdle]
    /\ UNCHANGED <<storeVars, chunkVars, model, loads, trace, ret, svcVars>>

---------------------------------------------------------------------------
(* Specification of the service singleton: every request thread calls      *)
(* get_rag_service, again and again, in a process that has not made the    *)
(* instance yet.                                                           *)

InitService ==
    /\ StoreInit
    /\ ChunkIdle
    /\ model = "None"
    /\ loads = 0
    /\ trace = <<>>
    /\ ret = NoReturn
    /\ threads = [t \in Threads |-> ServiceIdle]
    /\ rag_service = 0
    /\ constructed = 0

NextService ==
    \E t \in Threads :
        \/ thread_get_rag_service(t)
        \/ thread_test_service(t)
        \/ \E fault \in {"none", "read_index"} : thread_construct_service(t, fault)
        \/ thread_assign_service(t)
        \/ thread_return_service(t)
        \/ thread_service_leave(t)

SpecService == InitService /\ [][NextService]_vars

\* C25: every call of get_rag_service returns the same RAGService instance,
\* in any interleaving of the first calls, and one RAGService (with its
\* VectorStore) is constructed in the process.
C25_OneServiceInstance ==
    /\ constructed <= 1
    /\ \A t \in Threads :
          (threads[t].pc = "returned" /\ threads[t].raised = "none")
              => threads[t].value = 1


---------------------------------------------------------------------------
(* Properties of construction and of the artifacts (SpecPersist).          *)

BothArtifacts == index_file.exists /\ meta_file.exists

\* C26: a VectorStore constructed on a path with neither artifact is empty;
\* one constructed on a path with both holds what the artifacts hold (saved
\* again it would write the same two files); the construction writes
\* nothing, and no call other than save writes to the path.
C26_ConstructionReadsOnly ==
    [][/\ op'.name = "construct"
          => /\ UNCHANGED <<index_file, meta_file>>
             /\ (~index_file.exists /\ ~meta_file.exists)
                   => (outcome' = "ok" /\ alive' /\ index' = <<>> /\ metadata' = <<>>)
             /\ (BothArtifacts /\ outcome' = "ok")
                   => /\ alive'
                      /\ write_index(index') = index_file.data
                      /\ pickle_dump(metadata') = meta_file.data
       /\ op'.name # "save" => UNCHANGED <<index_file, meta_file>>]_vars

\* a store was constructed from two artifacts that hold one record
C26_Witness ==
    /\ op.name = "construct"
    /\ outcome = "ok"
    /\ BothArtifacts
    /\ index_file.data = write_index(index)
    /\ ntotal(index) = 1
    /\ Len(metadata) = 1


\* C28: whenever both artifacts are on disk, and each can be read, they
\* hold the same number of entries, and a store constructed from them has
\* as many metadata records as vectors.
C28_ArtifactsAgree ==
    /\ (BothArtifacts /\ read_index(index_file).ok /\ pickle_load(meta_file).ok)
          => ntotal(read_index(index_file).value) = Len(pickle_load(meta_file).value)
    /\ (op.name = "construct" /\ outcome = "ok") => Len(metadata) = ntotal(index)


---------------------------------------------------------------------------
(* Persistence after ingestion (SpecIngest).                               *)

\* the artifacts can be read and hold the vectors idx and the records md
Persisted(idx, md) ==
    /\ read_index(index_file).ok
    /\ read_index(index_file).value = idx
    /\ pickle_load(meta_file).ok
    /\ pickle_load(meta_file).value = md

\* C29: whenever process_and_store_document returns a positive count, the
\* artifacts on disk hold the store as it is in memory at that moment: the
\* entries the store held before the call, those an earlier failed call
\* left in memory included, followed by the chunks of this call.
C29_ReturnMeansPersisted ==
    [][(/\ op'.name = "process_and_store_document"
        /\ outcome' = "ok"
        /\ ret'.count > 0)
         => /\ Len(metadata') = Len(metadata) + ret'.count
            /\ ntotal(index') = ntotal(index) + ret'.count
            /\ SubSeq(metadata', 1, Len(metadata)) = metadata
            /\ SubSeq(index', 1, ntotal(index)) = index
            /\ Persisted(index, metadata)'
            /\ Len(pickle_load(meta_file').value) = ntotal(read_index(index_file').value)]_vars

\* a call has returned a positive count on a store that already held an
\* entry, and the artifacts hold both
C29_Witness ==
    /\ op.name = "process_and_store_document"
    /\ outcome = "ok"
    /\ ret.count > 0
    /\ Len(metadata) > ret.count
    /\ Persisted(index, metadata)


---------------------------------------------------------------------------
(* Specification of the store's positions: vectors are added, and the      *)
(* store is searched, saved and asked for its statistics.                  *)

NextFrame ==
    \/ \E v \in GoodVectors, m \in Metas : add_vector(v, m)
    \/ \E q \in GoodVectors, k \in {1, MaxK} : search(q, k)
    \/ \E f \in SaveFaults : save(f)
    \/ call_get_stats

SpecFrame == Init /\ [][NextFrame]_vars

\* C30: a successful add_vector on a store of N entries puts the vector and
\* a record at position N and leaves positions 0..N-1 as they were; search,
\* save and get_stats leave the vectors and the stored records as they
\* were, the distance and similarity_score of a search being set on the
\* returned copies only; the number of vectors never goes down.
C30_AppendOnlyAndPureReads ==
    [][/\ (op'.name = "add_vector" /\ outcome' = "ok")
          => /\ index' = Append(index, op'.vec)
             /\ Len(metadata') = Len(metadata) + 1
             /\ SubSeq(metadata', 1, Len(metadata)) = metadata
       /\ op'.name \in {"search", "save", "get_stats"}
          => (index' = index /\ metadata' = metadata)
       /\ op'.name = "search"
          => \A i \in 1..Len(hits') :
                {"distance", "similarity_score"} \subseteq DOMAIN hits'[i]
       /\ op'.name = "get_stats" => ret'.stats.total_vectors = ntotal(index)
       /\ ntotal(index') >= ntotal(index)]_vars

\* a search has returned a hit with its distance from a store of two
\* records, neither of which has a distance
C30_Witness ==
    /\ op.name = "search"
    /\ Len(hits) >= 1
    /\ "distance" \in DOMAIN hits[1]
    /\ Len(metadata) = 2
    /\ \A i \in 1..2 : "distance" \notin DOMAIN metadata[i]

====
